---------------------------- MODULE Spec2Model ----------------------------
(***************************************************************************)
(* Model of the LLM response normalisation layer of web-ui                 *)
(* (internal/services/ai.go) and of the browser side                       *)
(* (static/js/company-onboarding.js): partial recovery of a review, the    *)
(* mentor chat and the onboarding session.                                 *)
(*                                                                         *)
(* A Go string is a sequence of one-character strings (one element per     *)
(* byte; the alphabet is ASCII, a rune beyond it is one element "U+...").   *)
(* The back quote, which a TLA+ string cannot hold, is the element "BQ".  Indices returned by Index and        *)
(* LastIndex are 0-based as in Go, and Slice(s, lo, hi) is Go's s[lo:hi].  *)
(***************************************************************************)
EXTENDS Integers, Sequences, FiniteSets, TLC

VARIABLES
    reply,      \* the raw reply handed to the extractor
    input,      \* how the raw reply was put together (kind of reply, its parts)
    call,       \* the operation applied last, "none" before
    result,     \* what that operation returned
    prior,      \* the earlier call of a two-call run (fenced reply, round trip)
    config,     \* ai.config of the service the calls are made on
    llm,        \* what callLLMWithOpts returned to the service method running
    \* company-onboarding.js, AIMentorChat
    conversationHistory,    \* this.conversationHistory
    isTyping,               \* this.isTyping
    chatMessages,           \* the messages shown in the element chat-messages
    chatRequests,           \* the mentor-chat requests sent and not yet settled
    \* company-onboarding.js, CompanyOnboarding
    progress,                   \* this.progress: learningPlan, completedChallenges
    selectedBasicChallenges,    \* this.selectedBasicChallenges
    selectedPackages,           \* this.selectedPackages
    learningPlan,               \* this.learningPlan
    currentChallengeIndex,      \* this.currentChallengeIndex
    currentChallenge,           \* this.currentChallenge
    loading,                    \* the challenges being fetched by loadCurrentChallenge
    submitting,                 \* a submission is awaiting its response
    timers,                     \* the pending 3-second timers of markChallengeComplete
    progressPercentage,         \* the percentage updateProgress wrote to the page
    screen,                     \* which of overview and session is displayed
    resumeCard,                 \* the overview offers to continue the saved journey
    localStorage                \* the saved chat history and the saved progress

\* the state of the AI service and of the reply under extraction
server == <<reply, input, prior, config, llm>>

\* the state of the mentor chat of the page
chat == <<conversationHistory, isTyping, chatMessages, chatRequests>>

\* the state of the onboarding session of the page
session ==
    <<progress, selectedBasicChallenges, selectedPackages, learningPlan,
      currentChallengeIndex, currentChallenge, loading, submitting, timers,
      progressPercentage, screen, resumeCard>>

browser == <<chat, session, localStorage>>

vars == <<server, call, result, browser>>

(***************************************************************************)
(* Bounds of the model                                                     *)
(***************************************************************************)
\* longest reply enumerated over the delimiter alphabet
MaxLen == 3

(***************************************************************************)
(* package strings                                                         *)
(***************************************************************************)
\* the white space strings.TrimSpace removes, as far as the alphabet has it
WhiteSpace == {" ", "\n", "\t", "\r"}

RECURSIVE SkipSpaceLeft(_, _)
SkipSpaceLeft(s, i) ==
    IF i > Len(s) THEN i
    ELSE IF s[i] \in WhiteSpace THEN SkipSpaceLeft(s, i + 1) ELSE i

RECURSIVE SkipSpaceRight(_, _)
SkipSpaceRight(s, i) ==
    IF i < 1 THEN i
    ELSE IF s[i] \in WhiteSpace THEN SkipSpaceRight(s, i - 1) ELSE i

TrimSpace(s) ==
    LET lo == SkipSpaceLeft(s, 1)
        hi == SkipSpaceRight(s, Len(s))
    IN  IF lo > hi THEN <<>> ELSE SubSeq(s, lo, hi)

HasPrefix(s, p) == Len(s) >= Len(p) /\ SubSeq(s, 1, Len(p)) = p

HasSuffix(s, p) == Len(s) >= Len(p) /\ SubSeq(s, Len(s) - Len(p) + 1, Len(s)) = p

TrimPrefix(s, p) == IF HasPrefix(s, p) THEN SubSeq(s, Len(p) + 1, Len(s)) ELSE s

TrimSuffix(s, p) == IF HasSuffix(s, p) THEN SubSeq(s, 1, Len(s) - Len(p)) ELSE s

\* the positions of the byte c in s
Positions(s, c) == {i \in 1..Len(s) : s[i] = c}

\* strings.Index(s, c) for a one-byte c: 0-based, -1 when absent
Index(s, c) ==
    LET at == Positions(s, c)
    IN  IF at = {} THEN -1 ELSE (CHOOSE i \in at : \A j \in at : i <= j) - 1

\* strings.LastIndex(s, c) for a one-byte c
LastIndex(s, c) ==
    LET at == Positions(s, c)
    IN  IF at = {} THEN -1 ELSE (CHOOSE i \in at : \A j \in at : i >= j) - 1

\* strings.Count(s, c) for a one-byte c
Count(s, c) == Cardinality(Positions(s, c))

\* the slice expression s[lo:hi] is in range (otherwise Go panics)
SliceInRange(s, lo, hi) == 0 <= lo /\ lo <= hi /\ hi <= Len(s)

\* s[lo:hi]
Slice(s, lo, hi) == SubSeq(s, lo + 1, hi)

(***************************************************************************)
(* Characters                                                              *)
(***************************************************************************)
Digits == {"0", "1", "2", "3", "4", "5", "6", "7", "8", "9"}

DigitVal ==
    ("0" :> 0) @@ ("1" :> 1) @@ ("2" :> 2) @@ ("3" :> 3) @@ ("4" :> 4) @@
    ("5" :> 5) @@ ("6" :> 6) @@ ("7" :> 7) @@ ("8" :> 8) @@ ("9" :> 9)

DigitChar == <<"0", "1", "2", "3", "4", "5", "6", "7", "8", "9">>

\* ASCII case folding of the field-name matching of encoding/json
Lower ==
    ("A" :> "a") @@ ("B" :> "b") @@ ("C" :> "c") @@ ("D" :> "d") @@ ("E" :> "e") @@
    ("F" :> "f") @@ ("G" :> "g") @@ ("H" :> "h") @@ ("I" :> "i") @@ ("J" :> "j") @@
    ("K" :> "k") @@ ("L" :> "l") @@ ("M" :> "m") @@ ("N" :> "n") @@ ("O" :> "o") @@
    ("P" :> "p") @@ ("Q" :> "q") @@ ("R" :> "r") @@ ("S" :> "s") @@ ("T" :> "t") @@
    ("U" :> "u") @@ ("V" :> "v") @@ ("W" :> "w") @@ ("X" :> "x") @@ ("Y" :> "y") @@
    ("Z" :> "z")

FoldName(s) == [i \in 1..Len(s) |-> IF s[i] \in DOMAIN Lower THEN Lower[s[i]] ELSE s[i]]

(***************************************************************************)
(* encoding/json: the syntax of a JSON text (json.Unmarshal checks the     *)
(* whole text before it stores anything).  A parsed value is a record      *)
(* tagged by t: "null", "bool", "num" (with its literal), "str" (decoded), *)
(* "arr" (its elements), "obj" (its members, in order, duplicates kept).   *)
(***************************************************************************)
\* what At yields beyond the end of the text
EOF == ""

At(s, i) == IF i >= 1 /\ i <= Len(s) THEN s[i] ELSE EOF

JNull == [t |-> "null"]

Fail == [ok |-> FALSE, n |-> 0, v |-> JNull]

Ok(v, n) == [ok |-> TRUE, n |-> n, v |-> v]

HasPrefixAt(s, i, p) == i + Len(p) - 1 <= Len(s) /\ SubSeq(s, i, i + Len(p) - 1) = p

\* bytes below 0x20 may not appear unescaped in a JSON string
Control == {"\n", "\t", "\r"}

\* the one-letter escapes of a JSON string (\b and \f are outside the alphabet)
Escape ==
    ("\"" :> "\"") @@ ("\\" :> "\\") @@ ("/" :> "/") @@
    ("n" :> "\n") @@ ("t" :> "\t") @@ ("r" :> "\r")

HexVal ==
    DigitVal @@
    ("a" :> 10) @@ ("b" :> 11) @@ ("c" :> 12) @@ ("d" :> 13) @@ ("e" :> 14) @@ ("f" :> 15) @@
    ("A" :> 10) @@ ("B" :> 11) @@ ("C" :> 12) @@ ("D" :> 13) @@ ("E" :> 14) @@ ("F" :> 15)

\* the code points a \uXXXX escape can name in this alphabet
RuneOf ==
    (10 :> "\n") @@ (34 :> "\"") @@ (38 :> "&") @@ (60 :> "<") @@ (62 :> ">") @@
    (91 :> "[") @@ (92 :> "\\") @@ (93 :> "]") @@ (123 :> "{") @@ (125 :> "}")

\* every other code point: one rune that is none of the alphabet's characters
OtherRune == "U+"

Rune(cp) == IF cp \in DOMAIN RuneOf THEN RuneOf[cp] ELSE OtherRune

IsHex4(s, i) == \A k \in 0..3 : At(s, i + k) \in DOMAIN HexVal

Hex4(s, i) ==
    4096 * HexVal[s[i]] + 256 * HexVal[s[i + 1]] + 16 * HexVal[s[i + 2]] + HexVal[s[i + 3]]

\* the string whose opening quote precedes position i; acc is the text decoded so far
RECURSIVE ScanString(_, _, _)
ScanString(s, i, acc) ==
    LET c == At(s, i)
    IN  IF c = EOF \/ c \in Control THEN Fail
        ELSE IF c = "\"" THEN Ok([t |-> "str", s |-> acc], i + 1)
        ELSE IF c = "\\" THEN
            LET e == At(s, i + 1)
            IN  IF e \in DOMAIN Escape THEN ScanString(s, i + 2, Append(acc, Escape[e]))
                ELSE IF e = "u" /\ IsHex4(s, i + 2)
                     THEN ScanString(s, i + 6, Append(acc, Rune(Hex4(s, i + 2))))
                ELSE Fail
        ELSE ScanString(s, i + 1, Append(acc, c))

RECURSIVE SkipDigits(_, _)
SkipDigits(s, i) == IF At(s, i) \in Digits THEN SkipDigits(s, i + 1) ELSE i

\* the position after one or more digits from i on, 0 when there is none
DigitsEnd(s, i) == IF At(s, i) \in Digits THEN SkipDigits(s, i + 1) ELSE 0

\* the integer part from a on: 0 | [1-9][0-9]*
IntegerEnd(s, a) == IF At(s, a) = "0" THEN a + 1 ELSE DigitsEnd(s, a)

\* the optional fraction after an integer part that ends before b: . [0-9]+
FractionEnd(s, b) ==
    IF b = 0 THEN 0 ELSE IF At(s, b) = "." THEN DigitsEnd(s, b + 1) ELSE b

\* the optional exponent after a fraction that ends before c: [eE] [+-]? [0-9]+
ExponentEnd(s, c) ==
    IF c = 0 THEN 0
    ELSE IF At(s, c) \notin {"e", "E"} THEN c
    ELSE DigitsEnd(s, IF At(s, c + 1) \in {"+", "-"} THEN c + 2 ELSE c + 1)

\* the position after the number literal that starts at i, 0 when there is none
ScanNumber(s, i) ==
    ExponentEnd(s, FractionEnd(s, IntegerEnd(s, IF At(s, i) = "-" THEN i + 1 ELSE i)))

\* the number literal from i up to e
NumberValue(s, i, e) ==
    IF e = 0 THEN Fail ELSE Ok([t |-> "num", lit |-> SubSeq(s, i, e - 1)], e)

RECURSIVE ParseValue(_, _)
RECURSIVE ParseElements(_, _, _)
RECURSIVE ParseMembers(_, _, _)

\* what follows an element of an array: a comma and the next element, or the bracket
NextElement(s, j, got) ==
    IF At(s, j) = "," THEN ParseElements(s, SkipSpaceLeft(s, j + 1), got)
    ELSE IF At(s, j) = "]" THEN Ok([t |-> "arr", e |-> got], j + 1)
    ELSE Fail

AfterElement(s, r, acc) ==
    IF ~r.ok THEN Fail ELSE NextElement(s, SkipSpaceLeft(s, r.n), Append(acc, r.v))

\* the elements of an array from position i on, up to its closing bracket
ParseElements(s, i, acc) == AfterElement(s, ParseValue(s, i), acc)

\* what follows a member of an object: a comma and the next member, or the brace
NextMember(s, j, got) ==
    IF At(s, j) = "," THEN ParseMembers(s, SkipSpaceLeft(s, j + 1), got)
    ELSE IF At(s, j) = "}" THEN Ok([t |-> "obj", m |-> got], j + 1)
    ELSE Fail

AfterMemberValue(s, key, r, acc) ==
    IF ~r.ok THEN Fail
    ELSE NextMember(s, SkipSpaceLeft(s, r.n), Append(acc, [k |-> key, v |-> r.v]))

AfterKey(s, key, c, acc) ==
    IF At(s, c) # ":" THEN Fail
    ELSE AfterMemberValue(s, key, ParseValue(s, SkipSpaceLeft(s, c + 1)), acc)

MemberFrom(s, k, acc) ==
    IF ~k.ok THEN Fail ELSE AfterKey(s, k.v.s, SkipSpaceLeft(s, k.n), acc)

\* the members of an object from position i on, up to its closing brace
ParseMembers(s, i, acc) ==
    IF At(s, i) # "\"" THEN Fail ELSE MemberFrom(s, ScanString(s, i + 1, <<>>), acc)

\* the value whose first character is at position i
ParseValue(s, i) ==
    LET c == At(s, i)
    IN  CASE c = "{" ->
               IF At(s, SkipSpaceLeft(s, i + 1)) = "}"
               THEN Ok([t |-> "obj", m |-> <<>>], SkipSpaceLeft(s, i + 1) + 1)
               ELSE ParseMembers(s, SkipSpaceLeft(s, i + 1), <<>>)
          [] c = "[" ->
               IF At(s, SkipSpaceLeft(s, i + 1)) = "]"
               THEN Ok([t |-> "arr", e |-> <<>>], SkipSpaceLeft(s, i + 1) + 1)
               ELSE ParseElements(s, SkipSpaceLeft(s, i + 1), <<>>)
          [] c = "\"" -> ScanString(s, i + 1, <<>>)
          [] c = "-" \/ c \in Digits -> NumberValue(s, i, ScanNumber(s, i))
          [] c = "t" ->
               IF HasPrefixAt(s, i, <<"t","r","u","e">>) THEN Ok([t |-> "bool", b |-> TRUE], i + 4)
               ELSE Fail
          [] c = "f" ->
               IF HasPrefixAt(s, i, <<"f","a","l","s","e">>) THEN Ok([t |-> "bool", b |-> FALSE], i + 5)
               ELSE Fail
          [] c = "n" ->
               IF HasPrefixAt(s, i, <<"n","u","l","l">>) THEN Ok(JNull, i + 4) ELSE Fail
          [] OTHER -> Fail

\* r when nothing but white space follows the value, a syntax error otherwise
WholeText(s, r) == IF r.ok /\ SkipSpaceLeft(s, r.n) > Len(s) THEN r ELSE Fail

\* a whole JSON text: one value, white space around it, nothing else
ParseJSON(s) == WholeText(s, ParseValue(s, SkipSpaceLeft(s, 1)))

(***************************************************************************)
(* The review types and their JSON field names                             *)
(***************************************************************************)
\* a float64 is the decimal (-1)^neg * mant / 10^scale, with no trailing zero in
\* the fraction (the shortest decimal that denotes the float)
Float(n) == [neg |-> FALSE, mant |-> n, scale |-> 0]

IsZero(f) == f.mant = 0

\* a Go slice: nil, or its elements
NilSlice == [nil |-> TRUE, e |-> <<>>]

SliceOf(e) == [nil |-> FALSE, e |-> e]

AICodeReviewTags ==
    [OverallScore |-> <<"o","v","e","r","a","l","l","_","s","c","o","r","e">>,
     Issues |-> <<"i","s","s","u","e","s">>,
     Suggestions |-> <<"s","u","g","g","e","s","t","i","o","n","s">>,
     InterviewerFeedback |-> <<"i","n","t","e","r","v","i","e","w","e","r","_","f","e","e","d","b","a","c","k">>,
     FollowUpQuestions |-> <<"f","o","l","l","o","w","_","u","p","_","q","u","e","s","t","i","o","n","s">>,
     Complexity |-> <<"c","o","m","p","l","e","x","i","t","y">>,
     ReadabilityScore |-> <<"r","e","a","d","a","b","i","l","i","t","y","_","s","c","o","r","e">>,
     TestCoverage |-> <<"t","e","s","t","_","c","o","v","e","r","a","g","e">>]

CodeIssueTags ==
    [Type |-> <<"t","y","p","e">>,
     Severity |-> <<"s","e","v","e","r","i","t","y">>,
     LineNumber |-> <<"l","i","n","e","_","n","u","m","b","e","r">>,
     Description |-> <<"d","e","s","c","r","i","p","t","i","o","n">>,
     Solution |-> <<"s","o","l","u","t","i","o","n">>]

CodeSuggestionTags ==
    [Category |-> <<"c","a","t","e","g","o","r","y">>,
     Priority |-> <<"p","r","i","o","r","i","t","y">>,
     Description |-> <<"d","e","s","c","r","i","p","t","i","o","n">>,
     Example |-> <<"e","x","a","m","p","l","e">>]

ComplexityAnalysisTags ==
    [TimeComplexity |-> <<"t","i","m","e","_","c","o","m","p","l","e","x","i","t","y">>,
     SpaceComplexity |-> <<"s","p","a","c","e","_","c","o","m","p","l","e","x","i","t","y">>,
     CanOptimize |-> <<"c","a","n","_","o","p","t","i","m","i","z","e">>,
     OptimizedApproach |-> <<"o","p","t","i","m","i","z","e","d","_","a","p","p","r","o","a","c","h">>]

\* the zero values json.Unmarshal starts from
ZeroIssue ==
    [Type |-> <<>>, Severity |-> <<>>, LineNumber |-> 0, Description |-> <<>>,
     Solution |-> <<>>]

ZeroSuggestion ==
    [Category |-> <<>>, Priority |-> <<>>, Description |-> <<>>, Example |-> <<>>]

ZeroComplexity ==
    [TimeComplexity |-> <<>>, SpaceComplexity |-> <<>>, CanOptimize |-> FALSE,
     OptimizedApproach |-> <<>>]

ZeroReview ==
    [OverallScore |-> Float(0),
     Issues |-> NilSlice,
     Suggestions |-> NilSlice,
     InterviewerFeedback |-> <<>>,
     FollowUpQuestions |-> NilSlice,
     Complexity |-> ZeroComplexity,
     ReadabilityScore |-> Float(0),
     TestCoverage |-> <<>>]

(***************************************************************************)
(* encoding/json: storing a parsed value into a Go value.  A decoder       *)
(* yields the value stored and whether an UnmarshalTypeError was recorded; *)
(* decoding goes on after such an error and Unmarshal returns it at the    *)
(* end.  null stores nothing into a number, string, bool or struct and     *)
(* makes a slice nil.                                                      *)
(***************************************************************************)
Stored(x) == [err |-> FALSE, val |-> x]

\* Mismatch losing the error
MismatchUnrecorded(cur) == [err |-> FALSE, val |-> cur]

Mismatch(cur) == [err |-> TRUE, val |-> cur]

RECURSIVE NatOf(_, _, _)
NatOf(d, i, acc) == IF i > Len(d) THEN acc ELSE NatOf(d, i + 1, 10 * acc + DigitVal[d[i]])

RECURSIVE Pow10(_)
Pow10(n) == IF n = 0 THEN 1 ELSE 10 * Pow10(n - 1)

RECURSIVE DropZeros(_, _)
DropZeros(m, sc) ==
    IF sc > 0 /\ m % 10 = 0 THEN DropZeros(m \div 10, sc - 1) ELSE [mant |-> m, scale |-> sc]

\* the decimal m0 / 10^sc0 of sign neg as a float
Decimal(neg, m0, sc0) ==
    IF m0 = 0 THEN [neg |-> neg, mant |-> 0, scale |-> 0]
    ELSE IF sc0 < 0 THEN [neg |-> neg, mant |-> m0 * Pow10(0 - sc0), scale |-> 0]
    ELSE [neg |-> neg] @@ DropZeros(m0, sc0)

\* the digits num, with a point after dot digits (-1: no point), times 10^ex
Shifted(neg, num, dot, ex) ==
    IF dot = -1 THEN Decimal(neg, NatOf(num, 1, 0), 0 - ex)
    ELSE Decimal(neg, NatOf(SubSeq(num, 1, dot) \o SubSeq(num, dot + 2, Len(num)), 1, 0),
                 Len(num) - dot - 1 - ex)

\* the value of the exponent text ex: an optional sign and digits, or nothing
ExponentValue(ex) ==
    IF ex = <<>> THEN 0
    ELSE IF ex[1] = "-" THEN 0 - NatOf(Tail(ex), 1, 0)
    ELSE IF ex[1] = "+" THEN NatOf(Tail(ex), 1, 0)
    ELSE NatOf(ex, 1, 0)

\* the unsigned literal body whose exponent letter is at ePos (0: no exponent)
Split(neg, body, ePos) ==
    IF ePos = 0 THEN Shifted(neg, body, Index(body, "."), 0)
    ELSE Shifted(neg, SubSeq(body, 1, ePos - 1), Index(SubSeq(body, 1, ePos - 1), "."),
                 ExponentValue(SubSeq(body, ePos + 1, Len(body))))

\* the position of the exponent letter of an unsigned literal, 0 when it has none
ExponentAt(body) == Index(body, "e") + Index(body, "E") + 2

Unsigned(lit) == IF lit[1] = "-" THEN Tail(lit) ELSE lit

\* strconv.ParseFloat of a JSON number literal (within the float's exact decimal range)
ParseFloat(lit) == Split(lit[1] = "-", Unsigned(lit), ExponentAt(Unsigned(lit)))

\* strconv.ParseInt accepts the literal: an optional sign and digits only
IsIntLiteral(lit) == \A i \in 1..Len(lit) : lit[i] \in Digits \/ (i = 1 /\ lit[i] = "-")

ParseInt(lit) ==
    IF lit[1] = "-" THEN 0 - NatOf(Tail(lit), 1, 0) ELSE NatOf(lit, 1, 0)

DecodeString(v, cur) ==
    CASE v.t = "null" -> Stored(cur)
      [] v.t = "str" -> Stored(v.s)
      [] OTHER -> Mismatch(cur)

DecodeFloat(v, cur) ==
    CASE v.t = "null" -> Stored(cur)
      [] v.t = "num" -> Stored(ParseFloat(v.lit))
      [] OTHER -> Mismatch(cur)

DecodeInt(v, cur) ==
    CASE v.t = "null" -> Stored(cur)
      [] v.t = "num" -> IF IsIntLiteral(v.lit) THEN Stored(ParseInt(v.lit)) ELSE Mismatch(cur)
      [] OTHER -> Mismatch(cur)

DecodeBool(v, cur) ==
    CASE v.t = "null" -> Stored(cur)
      [] v.t = "bool" -> Stored(v.b)
      [] OTHER -> Mismatch(cur)

\* a key names a field when it equals the field's JSON name, exactly or folded
IsField(key, name) == key = name \/ FoldName(key) = FoldName(name)

\* the members of an object stored one after the other (a later duplicate wins)
RECURSIVE StoreMembers(_, _, _, _)
StoreMembers(Store(_, _, _), m, i, acc) ==
    IF i > Len(m) THEN acc
    ELSE StoreMembers(Store, m, i + 1, Store(acc, m[i].k, m[i].v))

DecodeStruct(Store(_, _, _), v, cur) ==
    CASE v.t = "null" -> Stored(cur)
      [] v.t = "obj" -> StoreMembers(Store, v.m, 1, Stored(cur))
      [] OTHER -> Mismatch(cur)

\* acc with the decoded element d appended
Appended(acc, d) == [err |-> acc.err \/ d.err, val |-> Append(acc.val, d.val)]

\* the elements of an array decoded in order, each into a zero element
RECURSIVE DecodeElements(_, _, _, _, _)
DecodeElements(Decode(_, _), zero, e, i, acc) ==
    IF i > Len(e) THEN acc
    ELSE DecodeElements(Decode, zero, e, i + 1, Appended(acc, Decode(e[i], zero)))

\* the decoded elements d as a slice
AsSlice(d) == [err |-> d.err, val |-> SliceOf(d.val)]

DecodeSlice(Decode(_, _), zero, v, cur) ==
    CASE v.t = "null" -> Stored(NilSlice)
      [] v.t = "arr" -> AsSlice(DecodeElements(Decode, zero, v.e, 1, Stored(<<>>)))
      [] OTHER -> Mismatch(cur)

\* acc with the outcome d of decoding the field f of the struct
Into(acc, f, d) == [err |-> acc.err \/ d.err, val |-> [acc.val EXCEPT ![f] = d.val]]

StoreIssueField(acc, key, v) ==
    LET cur == acc.val
        tag == CodeIssueTags
    IN  CASE IsField(key, tag.Type) ->
               Into(acc, "Type", DecodeString(v, cur.Type))
          [] IsField(key, tag.Severity) ->
               Into(acc, "Severity", DecodeString(v, cur.Severity))
          [] IsField(key, tag.LineNumber) ->
               Into(acc, "LineNumber", DecodeInt(v, cur.LineNumber))
          [] IsField(key, tag.Description) ->
               Into(acc, "Description", DecodeString(v, cur.Description))
          [] IsField(key, tag.Solution) ->
               Into(acc, "Solution", DecodeString(v, cur.Solution))
          [] OTHER -> acc

DecodeIssue(v, cur) == DecodeStruct(StoreIssueField, v, cur)

StoreSuggestionField(acc, key, v) ==
    LET cur == acc.val
        tag == CodeSuggestionTags
    IN  CASE IsField(key, tag.Category) ->
               Into(acc, "Category", DecodeString(v, cur.Category))
          [] IsField(key, tag.Priority) ->
               Into(acc, "Priority", DecodeString(v, cur.Priority))
          [] IsField(key, tag.Description) ->
               Into(acc, "Description", DecodeString(v, cur.Description))
          [] IsField(key, tag.Example) ->
               Into(acc, "Example", DecodeString(v, cur.Example))
          [] OTHER -> acc

DecodeSuggestion(v, cur) == DecodeStruct(StoreSuggestionField, v, cur)

StoreComplexityField(acc, key, v) ==
    LET cur == acc.val
        tag == ComplexityAnalysisTags
    IN  CASE IsField(key, tag.TimeComplexity) ->
               Into(acc, "TimeComplexity", DecodeString(v, cur.TimeComplexity))
          [] IsField(key, tag.SpaceComplexity) ->
               Into(acc, "SpaceComplexity", DecodeString(v, cur.SpaceComplexity))
          [] IsField(key, tag.CanOptimize) ->
               Into(acc, "CanOptimize", DecodeBool(v, cur.CanOptimize))
          [] IsField(key, tag.OptimizedApproach) ->
               Into(acc, "OptimizedApproach", DecodeString(v, cur.OptimizedApproach))
          [] OTHER -> acc

DecodeComplexity(v, cur) == DecodeStruct(StoreComplexityField, v, cur)

StoreReviewField(acc, key, v) ==
    LET cur == acc.val
        tag == AICodeReviewTags
    IN  CASE IsField(key, tag.OverallScore) ->
               Into(acc, "OverallScore", DecodeFloat(v, cur.OverallScore))
          [] IsField(key, tag.Issues) ->
               Into(acc, "Issues", DecodeSlice(DecodeIssue, ZeroIssue, v, cur.Issues))
          [] IsField(key, tag.Suggestions) ->
               Into(acc, "Suggestions", DecodeSlice(DecodeSuggestion, ZeroSuggestion, v, cur.Suggestions))
          [] IsField(key, tag.InterviewerFeedback) ->
               Into(acc, "InterviewerFeedback", DecodeString(v, cur.InterviewerFeedback))
          [] IsField(key, tag.FollowUpQuestions) ->
               Into(acc, "FollowUpQuestions", DecodeSlice(DecodeString, <<>>, v, cur.FollowUpQuestions))
          [] IsField(key, tag.Complexity) ->
               Into(acc, "Complexity", DecodeComplexity(v, cur.Complexity))
          [] IsField(key, tag.ReadabilityScore) ->
               Into(acc, "ReadabilityScore", DecodeFloat(v, cur.ReadabilityScore))
          [] IsField(key, tag.TestCoverage) ->
               Into(acc, "TestCoverage", DecodeString(v, cur.TestCoverage))
          [] OTHER -> acc

\* the parsed text p stored by Decode into cur; a syntax error stores nothing
StoreParsed(Decode(_, _), p, cur) == IF ~p.ok THEN Mismatch(cur) ELSE Decode(p.v, cur)

DecodeReview(v, cur) == DecodeStruct(StoreReviewField, v, cur)

DecodeStrings(v, cur) == DecodeSlice(DecodeString, <<>>, v, cur)

\* json.Unmarshal(text, &review) with review the zero AICodeReview:
\* err is a syntax error or a recorded type mismatch
UnmarshalReview(text) == StoreParsed(DecodeReview, ParseJSON(text), ZeroReview)

\* json.Unmarshal(text, &questions) with questions a nil []string
UnmarshalStrings(text) == StoreParsed(DecodeStrings, ParseJSON(text), NilSlice)

(***************************************************************************)
(* encoding/json: the JSON text of an AICodeReview, as the struct tags     *)
(* name its fields (fields in declaration order, strings HTML-escaped).    *)
(* sp is the white space written after each ':' and ','; json.Marshal      *)
(* writes none.                                                            *)
(***************************************************************************)
RECURSIVE NatDigits(_)
NatDigits(n) ==
    IF n < 10 THEN <<DigitChar[n + 1]>> ELSE Append(NatDigits(n \div 10), DigitChar[(n % 10) + 1])

FormatInt(n) == IF n < 0 THEN <<"-">> \o NatDigits(0 - n) ELSE NatDigits(n)

\* strconv.AppendFloat(b, f, 'f', -1, 64)
FormatFloat(f) ==
    LET d == NatDigits(f.mant)
        pad == [i \in 1..(f.scale - Len(d) + 1) |-> "0"]
        all == IF Len(d) > f.scale THEN d ELSE pad \o d
        cut == Len(all) - f.scale
        txt == IF f.scale = 0 THEN d
               ELSE SubSeq(all, 1, cut) \o <<".">> \o SubSeq(all, cut + 1, Len(all))
    IN  IF f.neg THEN <<"-">> \o txt ELSE txt

EscapeChar(c) ==
    CASE c = "\"" -> <<"\\","\"">>
      [] c = "\\" -> <<"\\","\\">>
      [] c = "\n" -> <<"\\","n">>
      [] c = "\r" -> <<"\\","r">>
      [] c = "\t" -> <<"\\","t">>
      [] c = "<" -> <<"\\","u","0","0","3","c">>
      [] c = ">" -> <<"\\","u","0","0","3","e">>
      [] c = "&" -> <<"\\","u","0","0","2","6">>
      [] OTHER -> <<c>>

RECURSIVE EscapeFrom(_, _)
EscapeFrom(s, i) == IF i > Len(s) THEN <<>> ELSE EscapeChar(s[i]) \o EscapeFrom(s, i + 1)

MarshalString(s) == <<"\"">> \o EscapeFrom(s, 1) \o <<"\"">>

MarshalBool(b) == IF b THEN <<"t","r","u","e">> ELSE <<"f","a","l","s","e">>

\* "name":value
Member(name, value, sp) == MarshalString(name) \o <<":">> \o sp \o value

RECURSIVE JoinFrom(_, _, _)
JoinFrom(parts, i, sp) ==
    IF i > Len(parts) THEN <<>>
    ELSE IF i = Len(parts) THEN parts[i]
    ELSE parts[i] \o <<",">> \o sp \o JoinFrom(parts, i + 1, sp)

EncodeObject(members, sp) == <<"{">> \o JoinFrom(members, 1, sp) \o <<"}">>

EncodeSlice(Encode(_, _), sl, sp) ==
    IF sl.nil THEN <<"n","u","l","l">>
    ELSE <<"[">> \o JoinFrom([i \in 1..Len(sl.e) |-> Encode(sl.e[i], sp)], 1, sp) \o <<"]">>

EncodeString(s, sp) == MarshalString(s)

EncodeIssue(x, sp) ==
    LET tag == CodeIssueTags
    IN  EncodeObject(<<Member(tag.Type, MarshalString(x.Type), sp),
                        Member(tag.Severity, MarshalString(x.Severity), sp),
                        Member(tag.LineNumber, FormatInt(x.LineNumber), sp),
                        Member(tag.Description, MarshalString(x.Description), sp),
                        Member(tag.Solution, MarshalString(x.Solution), sp)>>, sp)

EncodeSuggestion(x, sp) ==
    LET tag == CodeSuggestionTags
    IN  EncodeObject(<<Member(tag.Category, MarshalString(x.Category), sp),
                        Member(tag.Priority, MarshalString(x.Priority), sp),
                        Member(tag.Description, MarshalString(x.Description), sp),
                        Member(tag.Example, MarshalString(x.Example), sp)>>, sp)

EncodeComplexity(x, sp) ==
    LET tag == ComplexityAnalysisTags
    IN  EncodeObject(<<Member(tag.TimeComplexity, MarshalString(x.TimeComplexity), sp),
                        Member(tag.SpaceComplexity, MarshalString(x.SpaceComplexity), sp),
                        Member(tag.CanOptimize, MarshalBool(x.CanOptimize), sp),
                        Member(tag.OptimizedApproach, MarshalString(x.OptimizedApproach), sp)>>, sp)

EncodeReview(r, sp) ==
    LET tag == AICodeReviewTags
    IN  EncodeObject(<<Member(tag.OverallScore, FormatFloat(r.OverallScore), sp),
                        Member(tag.Issues, EncodeSlice(EncodeIssue, r.Issues, sp), sp),
                        Member(tag.Suggestions, EncodeSlice(EncodeSuggestion, r.Suggestions, sp), sp),
                        Member(tag.InterviewerFeedback, MarshalString(r.InterviewerFeedback), sp),
                        Member(tag.FollowUpQuestions,
                               EncodeSlice(EncodeString, r.FollowUpQuestions, sp), sp),
                        Member(tag.Complexity, EncodeComplexity(r.Complexity, sp), sp),
                        Member(tag.ReadabilityScore, FormatFloat(r.ReadabilityScore), sp),
                        Member(tag.TestCoverage, MarshalString(r.TestCoverage), sp)>>, sp)

\* json.Marshal(review)
MarshalReview(r) == EncodeReview(r, <<>>)

(***************************************************************************)
(* services/ai.go: the extractor                                           *)
(***************************************************************************)
\* the triple-backtick fence marker
Fence == <<"BQ","BQ","BQ">>

\* the fence marker with the language tag parseAIResponse knows
FenceJSON == <<"BQ","BQ","BQ","j","s","o","n">>

\* the longest echo of the raw reply in the fallback's feedback
FallbackEchoLimit == 500

\* a call that returned normally / a call that ended in a run-time panic
Returned(fields) == [panic |-> FALSE] @@ fields

Panicked == [panic |-> TRUE]

\* FallbackFeedback cutting a reply of FallbackEchoLimit bytes already
FallbackFeedbackFromLimit(rawResponse) ==
    IF Len(rawResponse) >= FallbackEchoLimit
    THEN SubSeq(rawResponse, 1, FallbackEchoLimit) \o <<".",".",".">>
    ELSE IF rawResponse = <<>>
    THEN <<"A","I"," ","p","r","o","v","i","d","e","d"," ","a","n"," ","e","m","p","t","y"," ","o","r",
       " ","m","a","l","f","o","r","m","e","d"," ","r","e","s","p","o","n","s","e","."," ","P","l",
       "e","a","s","e"," ","t","r","y"," ","a","g","a","i","n",".">>
    ELSE rawResponse

\* the feedback createFallbackReview takes from the raw reply
FallbackFeedback(rawResponse) ==
    IF Len(rawResponse) > FallbackEchoLimit
    THEN SubSeq(rawResponse, 1, FallbackEchoLimit) \o <<".",".",".">>
    ELSE IF rawResponse = <<>>
    THEN <<"A","I"," ","p","r","o","v","i","d","e","d"," ","a","n"," ","e","m","p","t","y"," ","o","r",
       " ","m","a","l","f","o","r","m","e","d"," ","r","e","s","p","o","n","s","e","."," ","P","l",
       "e","a","s","e"," ","t","r","y"," ","a","g","a","i","n",".">>
    ELSE rawResponse

\* createFallbackReview(reason, rawResponse)
createFallbackReview(reason, rawResponse) ==
    LET feedback == FallbackFeedback(rawResponse)
    IN  [OverallScore |-> Float(50),
         Issues |-> SliceOf(<<
             [Type |-> <<"p","a","r","s","i","n","g">>,
              Severity |-> <<"m","e","d","i","u","m">>,
              LineNumber |-> 0,
              Description |-> <<"A","I"," ","r","e","s","p","o","n","s","e"," ","p","a","r","s","i","n","g"," ","i","s","s",
       "u","e",":"," ">> \o reason,
              Solution |-> <<"T","r","y"," ","r","u","n","n","i","n","g"," ","t","h","e"," ","A","I"," ","r","e","v","i",
       "e","w"," ","a","g","a","i","n",","," ","o","r"," ","c","h","e","c","k"," ","y","o","u","r",
       " ","c","o","d","e"," ","f","o","r"," ","s","y","n","t","a","x"," ","i","s","s","u","e","s",
       ".">>]>>),
         Suggestions |-> SliceOf(<<
             [Category |-> <<"t","r","o","u","b","l","e","s","h","o","o","t","i","n","g">>,
              Priority |-> <<"m","e","d","i","u","m">>,
              Description |-> <<"I","f"," ","t","h","i","s"," ","k","e","e","p","s"," ","h","a","p","p","e","n","i","n","g",
       ","," ","t","r","y"," ","s","i","m","p","l","i","f","y","i","n","g"," ","y","o","u","r"," ",
       "c","o","d","e"," ","o","r"," ","b","r","e","a","k","i","n","g"," ","i","t"," ","i","n","t",
       "o"," ","s","m","a","l","l","e","r"," ","f","u","n","c","t","i","o","n","s",".">>,
              Example |-> <<>>]>>),
         InterviewerFeedback |->
             <<"I","'","m"," ","h","a","v","i","n","g"," ","t","r","o","u","b","l","e"," ","a","n","a","l",
       "y","z","i","n","g"," ","y","o","u","r"," ","c","o","d","e"," ","a","u","t","o","m","a","t",
       "i","c","a","l","l","y","."," ">> \o feedback
             \o <<" ","L","e","t","'","s"," ","f","o","c","u","s"," ","o","n"," ","t","h","e"," ","c","o","r",
       "e"," ","l","o","g","i","c"," ","-"," ","c","a","n"," ","y","o","u"," ","w","a","l","k"," ",
       "m","e"," ","t","h","r","o","u","g","h"," ","y","o","u","r"," ","a","p","p","r","o","a","c",
       "h","?">>,
         FollowUpQuestions |-> SliceOf(<<
             <<"C","a","n"," ","y","o","u"," ","e","x","p","l","a","i","n"," ","y","o","u","r"," ","a","l",
       "g","o","r","i","t","h","m"," ","s","t","e","p"," ","b","y"," ","s","t","e","p","?">>,
             <<"W","h","a","t","'","s"," ","t","h","e"," ","t","i","m","e"," ","c","o","m","p","l","e","x",
       "i","t","y"," ","o","f"," ","y","o","u","r"," ","s","o","l","u","t","i","o","n","?">>,
             <<"H","o","w"," ","w","o","u","l","d"," ","y","o","u"," ","h","a","n","d","l","e"," ","e","d",
       "g","e"," ","c","a","s","e","s","?">>>>),
         Complexity |->
             [TimeComplexity |-> <<"U","n","a","b","l","e"," ","t","o"," ","a","n","a","l","y","z","e">>,
              SpaceComplexity |-> <<"U","n","a","b","l","e"," ","t","o"," ","a","n","a","l","y","z","e">>,
              CanOptimize |-> FALSE,
              OptimizedApproach |-> <<"R","e","r","u","n"," ","a","n","a","l","y","s","i","s"," ","a","f","t","e","r"," ","f","i",
       "x","i","n","g"," ","a","n","y"," ","s","y","n","t","a","x"," ","i","s","s","u","e","s">>],
         ReadabilityScore |-> Float(50),
         TestCoverage |-> <<"U","n","a","b","l","e"," ","t","o"," ","a","s","s","e","s","s"," ","d","u","e"," ","t","o",
       " ","p","a","r","s","i","n","g"," ","e","r","r","o","r">>]

\* StripCodeBlock without the removal of the json-tagged marker
StripFenceOnly(response) ==
    TrimSpace(TrimSuffix(TrimPrefix(TrimSpace(response), Fence), Fence))

\* the reply with the markdown code-block markers removed
StripCodeBlock(response) ==
    TrimSpace(TrimSuffix(TrimPrefix(TrimPrefix(TrimSpace(response), FenceJSON), Fence), Fence))

\* AllKeyFieldsEmpty asking for an empty test coverage as well
AllKeyFieldsAndCoverageEmpty(review) ==
    /\ IsZero(review.OverallScore)
    /\ IsZero(review.ReadabilityScore)
    /\ review.InterviewerFeedback = <<>>
    /\ review.TestCoverage = <<>>

\* AllKeyFieldsEmpty content with one key field missing
AnyKeyFieldEmpty(review) ==
    \/ IsZero(review.OverallScore)
    \/ IsZero(review.ReadabilityScore)
    \/ review.InterviewerFeedback = <<>>

\* AllKeyFieldsEmpty asking for an empty issue list as well
AllKeyFieldsAndIssuesEmpty(review) ==
    /\ IsZero(review.OverallScore)
    /\ IsZero(review.ReadabilityScore)
    /\ review.InterviewerFeedback = <<>>
    /\ Len(review.Issues.e) = 0

\* the review is missing all of its key fields
AllKeyFieldsEmpty(review) ==
    /\ IsZero(review.OverallScore)
    /\ IsZero(review.ReadabilityScore)
    /\ review.InterviewerFeedback = <<>>

\* MismatchedBraces seeing only the braces left open
UnclosedBraces(jsonStr) == Count(jsonStr, "{") > Count(jsonStr, "}")

\* the braces of the candidate do not pair up
MismatchedBraces(jsonStr) == Count(jsonStr, "{") # Count(jsonStr, "}")

\* the tail of parseAIResponse: u is what json.Unmarshal made of the candidate
Validated(jsonStr, u) ==
    IF u.err THEN
        Returned([review |-> createFallbackReview(<<"J","S","O","N"," ","p","a","r","s","i","n","g"," ","e","r","r","o","r">>, jsonStr),
                  err |-> "nil", log |-> "JSON unmarshal error"])
    ELSE IF AllKeyFieldsEmpty(u.val) THEN
        Returned([review |-> createFallbackReview(<<"I","n","c","o","m","p","l","e","t","e"," ","A","I"," ","r","e","s","p","o","n","s","e">>, jsonStr),
                  err |-> "nil", log |-> "all key fields empty"])
    ELSE Returned([review |-> u.val, err |-> "nil", log |-> "none"])

\* parseAIResponse from the brace count on, jsonStr being the candidate
Candidate(jsonStr) ==
    IF MismatchedBraces(jsonStr) THEN
        Returned([review |-> createFallbackReview(<<"I","n","c","o","m","p","l","e","t","e"," ","J","S","O","N"," ","r","e","s","p","o","n","s",
       "e">>, jsonStr),
                  err |-> "nil", log |-> "mismatched braces"])
    ELSE Validated(jsonStr, UnmarshalReview(jsonStr))

\* Extract taking the candidate up to the end of the text
ExtractToEndOfText(text, start, end) ==
    IF start = -1 \/ end = -1 THEN
        Returned([review |-> createFallbackReview(<<"N","o"," ","J","S","O","N"," ","f","o","u","n","d"," ","i","n"," ","A","I"," ","r","e","s",
       "p","o","n","s","e">>, text),
                  err |-> "nil", log |-> "no JSON braces found"])
    ELSE IF ~SliceInRange(text, start, Len(text)) THEN Panicked
    ELSE Candidate(Slice(text, start, Len(text)))

\* Extract giving up only when both braces are missing
ExtractUnlessBothMissing(text, start, end) ==
    IF start = -1 /\ end = -1 THEN
        Returned([review |-> createFallbackReview(<<"N","o"," ","J","S","O","N"," ","f","o","u","n","d"," ","i","n"," ","A","I"," ","r","e","s",
       "p","o","n","s","e">>, text),
                  err |-> "nil", log |-> "no JSON braces found"])
    ELSE IF ~SliceInRange(text, start, end + 1) THEN Panicked
    ELSE Candidate(Slice(text, start, end + 1))

\* parseAIResponse from the search for the braces on, text being the stripped reply
Extract(text, start, end) ==
    IF start = -1 \/ end = -1 THEN
        Returned([review |-> createFallbackReview(<<"N","o"," ","J","S","O","N"," ","f","o","u","n","d"," ","i","n"," ","A","I"," ","r","e","s",
       "p","o","n","s","e">>, text),
                  err |-> "nil", log |-> "no JSON braces found"])
    ELSE IF ~SliceInRange(text, start, end + 1) THEN Panicked
    ELSE Candidate(Slice(text, start, end + 1))

LocateObject(text) == Extract(text, Index(text, "{"), LastIndex(text, "}"))

\* parseAIResponse(response): the review and error returned and the line logged
parseAIResponse(response) == LocateObject(StripCodeBlock(response))

\* the questions parseQuestions returns when it finds no array
DefaultQuestions ==
    SliceOf(<<<<"W","h","a","t","'","s"," ","t","h","e"," ","t","i","m","e"," ","c","o","m","p","l","e","x",
       "i","t","y"," ","o","f"," ","y","o","u","r"," ","s","o","l","u","t","i","o","n","?">>,
              <<"H","o","w"," ","w","o","u","l","d"," ","y","o","u"," ","h","a","n","d","l","e"," ","e","d",
       "g","e"," ","c","a","s","e","s","?">>,
              <<"C","a","n"," ","y","o","u"," ","o","p","t","i","m","i","z","e"," ","t","h","i","s"," ","f",
       "u","r","t","h","e","r","?">>>>)

\* QuestionsOr taking an empty array for a failure
QuestionsOrDefaultWhenEmpty(u) ==
    IF u.err \/ Len(u.val.e) = 0 THEN Returned([questions |-> DefaultQuestions])
    ELSE Returned([questions |-> u.val])

\* the tail of parseQuestions: u is what json.Unmarshal made of the candidate
QuestionsOr(u) ==
    IF u.err THEN Returned([questions |-> DefaultQuestions])
    ELSE Returned([questions |-> u.val])

ExtractArray(response, start, end) ==
    IF start = -1 \/ end = -1 THEN Returned([questions |-> DefaultQuestions])
    ELSE IF ~SliceInRange(response, start, end + 1) THEN Panicked
    ELSE QuestionsOr(UnmarshalStrings(Slice(response, start, end + 1)))

\* parseQuestions(response)
parseQuestions(response) ==
    ExtractArray(response, Index(response, "["), LastIndex(response, "]"))

\* parseHint looking at the configuration of the service
parseHintWhenKeyed(response) ==
    IF TrimSpace(response) = <<>> \/ config.APIKey = <<>>
    THEN Returned([text |-> <<"C","o","n","s","i","d","e","r"," ","t","h","e"," ","p","r","o","b","l","e","m"," ","s","t",
       "e","p"," ","b","y"," ","s","t","e","p","."," ","W","h","a","t","'","s"," ","t","h","e"," ",
       "c","o","r","e"," ","r","e","q","u","i","r","e","m","e","n","t"," ","h","e","r","e","?">>])
    ELSE Returned([text |-> TrimSpace(response)])

\* parseHint(response)
parseHint(response) ==
    IF TrimSpace(response) = <<>>
    THEN Returned([text |-> <<"C","o","n","s","i","d","e","r"," ","t","h","e"," ","p","r","o","b","l","e","m"," ","s","t",
       "e","p"," ","b","y"," ","s","t","e","p","."," ","W","h","a","t","'","s"," ","t","h","e"," ",
       "c","o","r","e"," ","r","e","q","u","i","r","e","m","e","n","t"," ","h","e","r","e","?">>])
    ELSE Returned([text |-> TrimSpace(response)])

\* CleanChat removing the json tag of the opening marker too
CleanChatAndTag(response) ==
    TrimSpace(TrimSuffix(TrimPrefix(TrimPrefix(TrimSpace(response), FenceJSON), Fence), Fence))

\* the reply trimmed and without one pair of fence markers
CleanChat(response) == TrimSpace(TrimSuffix(TrimPrefix(TrimSpace(response), Fence), Fence))

\* parseChatResponse(response)
parseChatResponse(response) ==
    IF CleanChat(response) = <<>>
    THEN Returned([text |-> <<"I","'","m"," ","h","e","r","e"," ","t","o"," ","h","e","l","p","!"," ","C","o","u","l","d",
       " ","y","o","u"," ","r","e","p","h","r","a","s","e"," ","y","o","u","r"," ","q","u","e","s",
       "t","i","o","n","?">>])
    ELSE Returned([text |-> CleanChat(response)])

(***************************************************************************)
(* company-onboarding.js: handlePartialAIResponse, the score it lifts out  *)
(* of a reply that JSON.parse rejected                                     *)
(***************************************************************************)
ScoreKey == <<"\"","o","v","e","r","a","l","l","_","s","c","o","r","e","\"",":">>

\* the regular expression /"overall_score":\s*(\d+)/ matches at position i
ScoreMatchesAt(s, i) ==
    HasPrefixAt(s, i, ScoreKey) /\ At(s, SkipSpaceLeft(s, i + Len(ScoreKey))) \in Digits

\* the digits captured by the match at position i
CapturedDigits(s, from) == SubSeq(s, from, SkipDigits(s, from) - 1)

\* overall_score as handlePartialAIResponse sets it: parseInt of the first match, else 0
PatternScore(s) ==
    LET hits == {i \in 1..Len(s) : ScoreMatchesAt(s, i)}
    IN  IF hits = {} THEN 0
        ELSE NatOf(CapturedDigits(s, SkipSpaceLeft(s, (CHOOSE i \in hits : \A j \in hits : i <= j)
                                                        + Len(ScoreKey))), 1, 0)

(***************************************************************************)
(* services/ai.go: the service methods around the extractor.  cfg is       *)
(* ai.config, out is what callLLMWithOpts returned.  Of a ChatResponse the *)
(* message, the success flag and the error text are kept; its time stamp,  *)
(* context line and suggestions come from the clock, the challenge and the *)
(* user's message.                                                         *)
(***************************************************************************)
\* the warning sign and the cross mark that open the fixed messages
WarningSign == <<"U+26A0", "U+FE0F">>

CrossMark == <<"U+274C">>

KeyRequired ==
    WarningSign \o <<" ","A","I"," ","f","e","a","t","u","r","e","s"," ","r","e","q","u","i","r","e"," ","a","n",
       " ","A","P","I"," ","k","e","y","."," ","G","e","t"," ","y","o","u","r"," ","f","r","e","e",
       " ","k","e","y"," ","a","t",":"," ","h","t","t","p","s",":","/","/","m","a","k","e","r","s",
       "u","i","t","e",".","g","o","o","g","l","e",".","c","o","m","/","a","p","p","/","a","p","i",
       "k","e","y">>

\* callLLMWithOpts was not called / failed with err / returned response
NoCall == [called |-> FALSE]

Failed(err) == [called |-> TRUE, failed |-> TRUE, err |-> err, response |-> <<>>]

Replied(response) == [called |-> TRUE, failed |-> FALSE, err |-> <<>>, response |-> response]

\* the review ReviewCode returns without an API key
KeyRequiredReview ==
    [OverallScore |-> Float(0),
     Issues |-> SliceOf(<<>>),
     Suggestions |-> SliceOf(<<>>),
     InterviewerFeedback |->
         WarningSign \o <<" ","A","I"," ","f","e","a","t","u","r","e","s"," ","r","e","q","u","i","r","e"," ","a","n",
       " ","A","P","I"," ","k","e","y","."," ","P","l","e","a","s","e"," ","a","d","d"," ","G","E",
       "M","I","N","I","_","A","P","I","_","K","E","Y"," ","t","o"," ","y","o","u","r"," ",".","e",
       "n","v"," ","f","i","l","e","."," ","G","e","t"," ","y","o","u","r"," ","f","r","e","e"," ",
       "k","e","y"," ","a","t",":"," ","h","t","t","p","s",":","/","/","m","a","k","e","r","s","u",
       "i","t","e",".","g","o","o","g","l","e",".","c","o","m","/","a","p","p","/","a","p","i","k",
       "e","y">>,
     FollowUpQuestions |-> SliceOf(<<<<"W","o","u","l","d"," ","y","o","u"," ","l","i","k","e"," ","t","o"," ","s","e","t"," ","u",
       "p"," ","A","I"," ","c","o","d","e"," ","r","e","v","i","e","w","?">>>>),
     Complexity |->
         [TimeComplexity |-> <<"N","/","A">>, SpaceComplexity |-> <<"N","/","A">>,
          CanOptimize |-> FALSE, OptimizedApproach |-> <<"S","e","t"," ","u","p"," ","y","o","u","r"," ","A","P","I"," ","k","e","y"," ","f","i","r",
       "s","t">>],
     ReadabilityScore |-> Float(0),
     TestCoverage |-> <<"A","P","I"," ","k","e","y"," ","r","e","q","u","i","r","e","d"," ","f","o","r"," ","A","I",
       " ","a","n","a","l","y","s","i","s">>]

\* the review ReviewCode returns when the provider call failed with err
UnavailableReview(err) ==
    [OverallScore |-> Float(0),
     Issues |-> SliceOf(<<>>),
     Suggestions |-> SliceOf(<<>>),
     InterviewerFeedback |->
         CrossMark \o <<" ","A","I"," ","s","e","r","v","i","c","e"," ","t","e","m","p","o","r","a","r","i","l","y",
       " ","u","n","a","v","a","i","l","a","b","l","e",":"," ">> \o err
         \o <<"."," ","P","l","e","a","s","e"," ","t","r","y"," ","a","g","a","i","n"," ","l","a","t","e",
       "r",".">>,
     FollowUpQuestions |-> SliceOf(<<<<"W","o","u","l","d"," ","y","o","u"," ","l","i","k","e"," ","t","o"," ","t","r","y"," ","a",
       "g","a","i","n","?">>>>),
     Complexity |->
         [TimeComplexity |-> <<"N","/","A">>, SpaceComplexity |-> <<"N","/","A">>,
          CanOptimize |-> FALSE, OptimizedApproach |-> <<"A","P","I"," ","s","e","r","v","i","c","e"," ","t","e","m","p","o","r","a","r","i","l","y",
       " ","u","n","a","v","a","i","l","a","b","l","e">>],
     ReadabilityScore |-> Float(0),
     TestCoverage |-> <<"A","I"," ","s","e","r","v","i","c","e"," ","u","n","a","v","a","i","l","a","b","l","e">>]

\* the end of ReviewCode: parsed is what parseAIResponse made of the response
Reviewed(response, parsed) ==
    IF parsed.panic THEN Panicked
    ELSE IF parsed.err # "nil" THEN
        Returned([review |-> createFallbackReview(<<"U","n","e","x","p","e","c","t","e","d"," ","p","a","r","s","i","n","g"," ","e","r","r","o",
       "r">>, response),
                  err |-> "nil"])
    ELSE Returned([review |-> parsed.review, err |-> "nil"])

ReviewCode(cfg, out) ==
    IF cfg.APIKey = <<>> THEN Returned([review |-> KeyRequiredReview, err |-> "nil"])
    ELSE IF out.failed THEN Returned([review |-> UnavailableReview(out.err), err |-> "nil"])
    ELSE Reviewed(out.response, parseAIResponse(out.response))

\* the end of GetInterviewerQuestions
Asked(parsed) ==
    IF parsed.panic THEN Panicked
    ELSE Returned([questions |-> parsed.questions, err |-> "nil"])

GetInterviewerQuestions(cfg, out) ==
    IF cfg.APIKey = <<>> THEN Returned([questions |-> SliceOf(<<KeyRequired>>), err |-> "nil"])
    ELSE IF out.failed THEN
        Returned([questions |-> SliceOf(<<CrossMark \o <<" ","A","I"," ","s","e","r","v","i","c","e"," ","u","n","a","v","a","i","l","a","b","l","e",
       ":"," ">> \o out.err>>),
                  err |-> "nil"])
    ELSE Asked(parseQuestions(out.response))

GetCodeHint(cfg, out) ==
    IF cfg.APIKey = <<>> THEN Returned([text |-> KeyRequired, err |-> "nil"])
    ELSE IF out.failed THEN
        Returned([text |-> CrossMark \o <<" ","A","I"," ","s","e","r","v","i","c","e"," ","u","n","a","v","a","i","l","a","b","l","e",
       ":"," ">> \o out.err, err |-> "nil"])
    ELSE Returned([text |-> parseHint(out.response).text, err |-> "nil"])

ChatWithMentor(cfg, out) ==
    IF cfg.APIKey = <<>> THEN
        Returned([chat |-> [Message |-> WarningSign \o <<" ","A","I"," ","c","h","a","t"," ","r","e","q","u","i","r","e","s"," ","a","n"," ","A","P",
       "I"," ","k","e","y","."," ","G","e","t"," ","y","o","u","r"," ","f","r","e","e"," ","k","e",
       "y"," ","a","t",":"," ","h","t","t","p","s",":","/","/","m","a","k","e","r","s","u","i","t",
       "e",".","g","o","o","g","l","e",".","c","o","m","/","a","p","p","/","a","p","i","k","e","y">>,
                            Success |-> FALSE,
                            Error |-> <<"A","P","I"," ","k","e","y"," ","n","o","t"," ","c","o","n","f","i","g","u","r","e","d">>],
                  err |-> "nil"])
    ELSE IF out.failed THEN
        Returned([chat |-> [Message |-> CrossMark \o <<" ","I","'","m"," ","h","a","v","i","n","g"," ","t","r","o","u","b","l","e"," ","c","o","n",
       "n","e","c","t","i","n","g"," ","r","i","g","h","t"," ","n","o","w","."," ","P","l","e","a",
       "s","e"," ","t","r","y"," ","a","g","a","i","n"," ","i","n"," ","a"," ","m","o","m","e","n",
       "t",".">>,
                            Success |-> FALSE,
                            Error |-> out.err],
                  err |-> "nil"])
    ELSE Returned([chat |-> [Message |-> parseChatResponse(out.response).text,
                             Success |-> TRUE,
                             Error |-> <<>>],
                   err |-> "nil"])


(***************************************************************************)
(* services/ai.go: the configuration NewAIService reads from the process   *)
(* environment, and the provider switch of callLLMWithOpts.  env maps the  *)
(* names of the environment variables to their values, unset being empty.  *)
(***************************************************************************)
ProviderGemini == <<"g","e","m","i","n","i">>

ProviderOpenAI == <<"o","p","e","n","a","i">>

ProviderClaude == <<"c","l","a","u","d","e">>

\* strings.ToLower, over ASCII
ToLower(s) == FoldName(s)

getProviderFromEnv(env) ==
    CASE ToLower(env.AI_PROVIDER) = <<"g","e","m","i","n","i">> -> ProviderGemini
      [] ToLower(env.AI_PROVIDER) = <<"o","p","e","n","a","i">> -> ProviderOpenAI
      [] ToLower(env.AI_PROVIDER) = <<"c","l","a","u","d","e">> -> ProviderClaude
      [] OTHER -> ProviderGemini

\* the key of the provider when set, else the generic AI_API_KEY
KeyOr(key, env) == IF key # <<>> THEN key ELSE env.AI_API_KEY

getAPIKeyFromEnvFor(env, provider) ==
    CASE provider = ProviderGemini -> KeyOr(env.GEMINI_API_KEY, env)
      [] provider = ProviderOpenAI -> KeyOr(env.OPENAI_API_KEY, env)
      [] provider = ProviderClaude -> KeyOr(env.CLAUDE_API_KEY, env)
      [] OTHER -> env.AI_API_KEY

getModelFromEnv(env) == env.AI_MODEL

GeminiBaseURL == <<"h","t","t","p","s",":","/","/","g","e","n","e","r","a","t","i","v","e","l","a","n","g","u",
       "a","g","e",".","g","o","o","g","l","e","a","p","i","s",".","c","o","m","/","v","1","b","e",
       "t","a","/","m","o","d","e","l","s">>

OpenAIBaseURL == <<"h","t","t","p","s",":","/","/","a","p","i",".","o","p","e","n","a","i",".","c","o","m","/",
       "v","1","/","c","h","a","t","/","c","o","m","p","l","e","t","i","o","n","s">>

ClaudeBaseURL == <<"h","t","t","p","s",":","/","/","a","p","i",".","a","n","t","h","r","o","p","i","c",".","c",
       "o","m","/","v","1","/","m","e","s","s","a","g","e","s">>

\* config.Model unless it is empty
ModelOr(model, default) == IF model = <<>> THEN default ELSE model

\* every provider given the defaults of Gemini
GeminiDefaults(c) ==
    [c EXCEPT !.BaseURL = GeminiBaseURL,
                   !.Model = ModelOr(c.Model, <<"g","e","m","i","n","i","-","2",".","5","-","f","l","a","s","h">>)]

\* the switch of NewAIService: the defaults of the provider
ProviderDefaults(c) ==
    CASE c.Provider = ProviderGemini ->
           [c EXCEPT !.BaseURL = GeminiBaseURL,
                          !.Model = ModelOr(c.Model, <<"g","e","m","i","n","i","-","2",".","5","-","f","l","a","s","h">>)]
      [] c.Provider = ProviderOpenAI ->
           [c EXCEPT !.BaseURL = OpenAIBaseURL,
                          !.Model = ModelOr(c.Model, <<"g","p","t","-","4","o","-","m","i","n","i">>)]
      [] c.Provider = ProviderClaude ->
           [c EXCEPT !.BaseURL = ClaudeBaseURL,
                          !.Model = ModelOr(c.Model, <<"c","l","a","u","d","e","-","3","-","s","o","n","n","e","t","-","2","0","2","4","0","2","2",
       "9">>)]
      [] OTHER ->
           [c EXCEPT !.Provider = ProviderGemini,
                          !.BaseURL = GeminiBaseURL,
                          !.Model = ModelOr(c.Model, <<"g","e","m","i","n","i","-","2",".","5","-","f","l","a","s","h">>)]

\* the LLMConfig literal of NewAIService
ConfigFor(env, cfgProvider) ==
    [Provider |-> cfgProvider,
     APIKey |-> getAPIKeyFromEnvFor(env, cfgProvider),
     Model |-> getModelFromEnv(env),
     BaseURL |-> <<>>,
     MaxTokens |-> 4000,
     Temperature |-> [neg |-> FALSE, mant |-> 3, scale |-> 1]]

\* the config of the service NewAIService returns
NewAIService(env) == ProviderDefaults(ConfigFor(env, getProviderFromEnv(env)))

\* the errors a call of the provider ends with
ProviderErrors(provider) ==
    CASE provider = ProviderGemini -> {<<"n","o"," ","r","e","s","p","o","n","s","e"," ","f","r","o","m"," ","G","e","m","i","n","i">>}
      [] provider = ProviderOpenAI -> {<<"n","o"," ","r","e","s","p","o","n","s","e"," ","f","r","o","m"," ","O","p","e","n","A","I">>}
      [] provider = ProviderClaude -> {<<"n","o"," ","r","e","s","p","o","n","s","e"," ","f","r","o","m"," ","C","l","a","u","d","e">>}
      [] OTHER -> {}

\* what the provider of cfg may answer when text is its reply
Answers(cfg, text) == {Replied(text)} \cup {Failed(e) : e \in ProviderErrors(cfg.Provider)}

\* callLLMWithOpts: the answer of the provider's call, or the error of the default
callLLMWithOpts(cfg, answer) ==
    IF cfg.Provider \in {ProviderGemini, ProviderOpenAI, ProviderClaude} THEN answer
    ELSE Failed(<<"u","n","s","u","p","p","o","r","t","e","d"," ","p","r","o","v","i","d","e","r",":"," ">> \o cfg.Provider)

\* an environment with nothing set
NoEnv ==
    [AI_PROVIDER |-> <<>>, GEMINI_API_KEY |-> <<>>, OPENAI_API_KEY |-> <<>>,
     CLAUDE_API_KEY |-> <<>>, AI_API_KEY |-> <<>>, AI_MODEL |-> <<>>]

(***************************************************************************)
(* company-onboarding.js: the page before it is used.  The constructors of *)
(* CompanyOnboarding and AIMentorChat leave these values when nothing is   *)
(* saved in localStorage.                                                  *)
(***************************************************************************)
\* this.learningPlan and progress.learningPlan before a plan is prepared
NoPlan == [basicChallenges |-> <<>>, packages |-> <<>>, totalChallenges |-> 0, set |-> FALSE]

\* the progress loadProgress returns when nothing is saved
DefaultProgress == [learningPlan |-> NoPlan, completedChallenges |-> <<>>]

\* this.currentChallenge = null
NoChallenge == [id |-> 0]

EmptyStorage == [chat |-> <<>>, progress |-> DefaultProgress]

PageUnused ==
    /\ conversationHistory = <<>>
    /\ isTyping = FALSE
    /\ chatMessages = <<>>
    /\ chatRequests = {}
    /\ progress = DefaultProgress
    /\ selectedBasicChallenges = <<>>
    /\ selectedPackages = <<>>
    /\ learningPlan = NoPlan
    /\ currentChallengeIndex = 0
    /\ currentChallenge = NoChallenge
    /\ loading = {}
    /\ submitting = FALSE
    /\ timers = <<>>
    /\ progressPercentage = 0
    /\ screen = "overview"
    /\ resumeCard = FALSE
    /\ localStorage = EmptyStorage
(***************************************************************************)
(* The replies the extractor is run on                                     *)
(***************************************************************************)
\* the characters of the short replies that are enumerated in full
DelimiterAlphabet == {"{", "}", "[", "]", "BQ", " ", "a"}

RECURSIVE TextsOfLen(_)
TextsOfLen(n) ==
    IF n = 0 THEN {<<>>}
    ELSE {Append(t, c) : t \in TextsOfLen(n - 1), c \in DelimiterAlphabet}

ShortTexts == UNION {TextsOfLen(n) : n \in 0..MaxLen}

IssueLeak ==
    [Type |-> <<"b","u","g">>, Severity |-> <<"h","i","g","h">>, LineNumber |-> 12,
     Description |-> <<"l","e","a","k">>, Solution |-> <<"c","l","o","s","e"," ","i","t">>]

IssueStyle ==
    [Type |-> <<"s","t","y","l","e">>, Severity |-> <<"l","o","w">>, LineNumber |-> 0,
     Description |-> <<"l","o","n","g"," ","{","b","l","o","c","k","}">>, Solution |-> <<>>]

SuggestionCache ==
    [Category |-> <<"o","p","t","i","m","i","z","a","t","i","o","n">>, Priority |-> <<"l","o","w">>,
     Description |-> <<"c","a","c","h","e"," ","i","t">>, Example |-> <<"m","[","k","]"," ","="," ","v">>]

\* the review of the specification's round-trip example
GoodReview ==
    [OverallScore |-> Float(85),
     Issues |-> SliceOf(<<>>),
     Suggestions |-> SliceOf(<<>>),
     InterviewerFeedback |-> <<"G","o","o","d"," ","j","o","b">>,
     FollowUpQuestions |-> SliceOf(<<>>),
     Complexity |->
         [TimeComplexity |-> <<"O","(","n",")">>, SpaceComplexity |-> <<"O","(","1",")">>,
          CanOptimize |-> FALSE, OptimizedApproach |-> <<>>],
     ReadabilityScore |-> Float(90),
     TestCoverage |-> <<"o","k">>]

SampleScores == {Float(0), Float(85)}

SampleFeedbacks == {<<>>, <<"G","o","o","d"," ","j","o","b">>, <<"a","d","d"," ","a"," ","}"," ","h","e","r","e">>, <<"{">>, <<"s","a","y"," ","\"","h","i","\"","\n","<","b",">">>}

SampleIssues == {SliceOf(<<>>), SliceOf(<<IssueLeak>>), SliceOf(<<IssueLeak, IssueStyle>>)}

\* reviews of the ReviewResult shape: the signal fields and the issues vary freely
SignalReviews ==
    {[GoodReview EXCEPT !.OverallScore = s, !.ReadabilityScore = rd,
                        !.InterviewerFeedback = fb, !.Issues = is] :
        s \in SampleScores, rd \in {Float(0), Float(90)}, fb \in SampleFeedbacks,
        is \in SampleIssues}

\* reviews whose other fields are filled
FilledReviews ==
    {[GoodReview EXCEPT !.OverallScore = s, !.ReadabilityScore = s,
                        !.InterviewerFeedback = fb,
                        !.Suggestions = SliceOf(<<SuggestionCache>>),
                        !.FollowUpQuestions = SliceOf(<<<<"W","h","y","?">>, <<"H","o","w"," ","[","f","a","s","t","]","?">>>>),
                        !.Complexity = [TimeComplexity |-> <<"O","(","n","^","2",")">>,
                                        SpaceComplexity |-> <<"O","(","n",")">>,
                                        CanOptimize |-> TRUE,
                                        OptimizedApproach |-> <<"u","s","e"," ","a"," ","m","a","p">>],
                        !.TestCoverage = <<"n","o","n","e">>] :
        s \in {Float(0), Float(7)}, fb \in {<<>>, <<"o","k">>}}

SampleReviews == SignalReviews \cup FilledReviews

\* the white space a reply may have after each ':' and ','
Spacings == {<<>>, <<" ">>}

\* the JSON object of a review with extra members before its '}'
RenderReview(r, sp, extra) ==
    LET text == EncodeReview(r, sp)
    IN  SubSeq(text, 1, Len(text) - 1) \o extra \o <<"}">>

\* members a reply may carry beyond the fields of the review
ExtraMembers == {<<>>, <<",","\"","n","o","t","e","\"",":","\"","}","\"">>}

\* prose before and after the JSON of a reply
Prefixes == {<<>>, <<"H","e","r","e"," ","i","s"," ","t","h","e"," ","r","e","v","i","e","w",":","\n">>}

Suffixes == {<<>>, <<"\n","H","o","p","e"," ","i","t"," ","h","e","l","p","s",".">>}

ReviewInputs ==
    {[kind |-> "review", review |-> r, spaced |-> sp, extra |-> x, pre |-> p, post |-> q] :
        r \in SampleReviews, sp \in Spacings, x \in ExtraMembers,
        p \in Prefixes, q \in Suffixes}

\* the review whose rendering gets cut off
CutReview ==
    [GoodReview EXCEPT !.OverallScore = Float(60),
                       !.Issues = SliceOf(<<IssueLeak, IssueStyle>>)]

CutText == <<"S","u","r","e","."," ">> \o RenderReview(CutReview, <<" ">>, <<>>)

TruncatedInputs == {[kind |-> "truncated", keep |-> n] : n \in 1..(Len(CutText) - 1)}

SampleQuestions ==
    {<<>>, <<<<"Q","1","?">>, <<"Q","2","?">>>>, <<<<"a","]">>, <<"[","b">>, <<>>>>, <<<<"s","a","y"," ","\"","h","i","\"">>>>}

RenderQuestions(qs, sp) == EncodeSlice(EncodeString, SliceOf(qs), sp)

QuestionInputs ==
    {[kind |-> "questions", questions |-> qs, spaced |-> sp, pre |-> p, post |-> q] :
        qs \in SampleQuestions, sp \in Spacings, p \in Prefixes, q \in Suffixes}

\* bracketed spans that are no JSON array of strings
BadArrays ==
    {<<"[","1","]">>, <<"[","n","u","l","l","]">>, <<"[","n","u","l","l",","," ","\"","a","\"","]">>, <<"[","\"","a","\"",","," ","2","]">>, <<"[","\"","a","\"",",","]">>, <<"[","\"","a","\""," ","\"","b","\"","]">>,
     <<"[","[","\"","a","\"","]","]">>, <<"[","\"","a","\"">> \o <<"\n">> \o <<"\"","]">>, <<"[","\"","a","\"","]"," ","a","n","d"," ","[","\"","b","\"","]">>, <<"[","{","\"","q","\"",":","\"","a","\"","}","]">>,
     <<"]"," ","[">>, <<"[","a","]">>}

BadArrayInputs == {[kind |-> "badarray", text |-> t] : t \in BadArrays}

\* how a reply is wrapped in a code fence
Wrappers ==
    {[tag |-> t, sep |-> s, pad |-> p] :
        t \in {<<>>, <<"j","s","o","n">>, <<"g","o">>}, s \in {<<>>, <<"\n">>}, p \in {<<>>, <<" ">>}}

Wrap(text, w) == w.pad \o Fence \o w.tag \o w.sep \o text \o w.sep \o Fence \o w.pad

\* plain-text replies that get fenced
SampleBodies == {<<>>, <<"h","e","l","l","o">>, <<"j","s","o","n"," ","f","i","r","s","t">>, <<"{","}">>, Fence \o <<"x">>, <<"x">> \o Fence}

WrappedInputs == {[kind |-> "wrapped", body |-> b, wrap |-> w] : b \in SampleBodies, w \in Wrappers}

TextInputs == {[kind |-> "text", text |-> t] : t \in ShortTexts}

\* objects that leave fields out, or carry scores that are no integer of 0..100
SparseObjects ==
    {<<"{","\"","o","v","e","r","a","l","l","_","s","c","o","r","e","\"",":","8","5","}">>,
     <<"{","\"","i","n","t","e","r","v","i","e","w","e","r","_","f","e","e","d","b","a","c","k",
       "\"",":","\"","o","k","\"","}">>,
     <<"{","\"","O","v","e","r","a","l","l","_","S","c","o","r","e","\"",":","7",",","\"","i","s",
       "s","u","e","s","\"",":","n","u","l","l","}">>,
     <<"{","\"","o","v","e","r","a","l","l","_","s","c","o","r","e","\"",":","1","5","0",",","\"",
       "r","e","a","d","a","b","i","l","i","t","y","_","s","c","o","r","e","\"",":","-","5","}">>,
     <<"{","\"","o","v","e","r","a","l","l","_","s","c","o","r","e","\"",":","8","5",".","5",",",
       "\"","r","e","a","d","a","b","i","l","i","t","y","_","s","c","o","r","e","\"",":","1","e",
       "3","}">>}

SparseInputs == {[kind |-> "sparse", text |-> t] : t \in SparseObjects}

\* texts in paired braces that are no JSON, or no JSON of the shape of a review
MalformedObjects ==
    {<<"{","\"","o","v","e","r","a","l","l","_","s","c","o","r","e","\"",":","\"","8","5","\"",",",
       "\"","i","n","t","e","r","v","i","e","w","e","r","_","f","e","e","d","b","a","c","k","\"",
       ":","\"","o","k","\"","}">>,
     <<"{","\"","o","v","e","r","a","l","l","_","s","c","o","r","e","\"",":","8","5",",","}">>,
     <<"{","o","v","e","r","a","l","l","_","s","c","o","r","e",":","8","5","}">>,
     <<"{","\"","o","v","e","r","a","l","l","_","s","c","o","r","e","\"",":","0","8","5","}">>,
     <<"{","\"","o","v","e","r","a","l","l","_","s","c","o","r","e","\"",":","8","5"," ","\"","r",
       "e","a","d","a","b","i","l","i","t","y","_","s","c","o","r","e","\"",":","9","}">>,
     <<"{","\"","o","v","e","r","a","l","l","_","s","c","o","r","e","\"",":","8","5","}"," ","{",
       "\"","r","e","a","d","a","b","i","l","i","t","y","_","s","c","o","r","e","\"",":","9","}">>,
     <<"{","\"","i","s","s","u","e","s","\"",":","{","}",",","\"","o","v","e","r","a","l","l","_",
       "s","c","o","r","e","\"",":","8","5","}">>,
     <<"{","\"","i","s","s","u","e","s","\"",":","[","{","\"","l","i","n","e","_","n","u","m","b",
       "e","r","\"",":","1",".","5","}","]",",","\"","o","v","e","r","a","l","l","_","s","c","o",
       "r","e","\"",":","8","5","}">>,
     <<"{","\"","c","o","m","p","l","e","x","i","t","y","\"",":","[","]",",","\"","r","e","a","d",
       "a","b","i","l","i","t","y","_","s","c","o","r","e","\"",":","3","}">>,
     <<"{","\"","c","o","m","p","l","e","x","i","t","y","\"",":","{","\"","c","a","n","_","o","p",
       "t","i","m","i","z","e","\"",":","\"","y","e","s","\"","}",",","\"","o","v","e","r","a","l",
       "l","_","s","c","o","r","e","\"",":","8","5","}">>,
     <<"{","\"","i","n","t","e","r","v","i","e","w","e","r","_","f","e","e","d","b","a","c","k",
       "\"",":","\"","a","\t","b","\"","}">>}

MalformedInputs ==
    {[kind |-> "malformed", text |-> p \o t \o q] :
        t \in MalformedObjects, p \in Prefixes, q \in Suffixes}

\* n bytes of filling
Filler(n) == [i \in 1..n |-> "a"]

\* replies about as long as the fallback echoes them
LongTexts ==
    {Filler(FallbackEchoLimit), Filler(FallbackEchoLimit + 1),
     <<"{">> \o Filler(FallbackEchoLimit - 1), <<"{">> \o Filler(FallbackEchoLimit),
     <<"{">> \o Filler(FallbackEchoLimit - 2) \o <<"}">>,
     <<"{">> \o Filler(FallbackEchoLimit - 1) \o <<"}">>,
     <<"s","e","e"," ","{">> \o Filler(FallbackEchoLimit + 1) \o <<"{","}"," ","e","n","d">>}

LongInputs == {[kind |-> "long", text |-> t] : t \in LongTexts}

Inputs ==
    TextInputs \cup ReviewInputs \cup TruncatedInputs \cup QuestionInputs
    \cup BadArrayInputs \cup WrappedInputs \cup SparseInputs \cup MalformedInputs
    \cup LongInputs

\* the raw reply an input stands for
TextOf(in) ==
    CASE in.kind = "text" -> in.text
      [] in.kind = "review" -> in.pre \o RenderReview(in.review, in.spaced, in.extra) \o in.post
      [] in.kind = "truncated" -> SubSeq(CutText, 1, in.keep)
      [] in.kind = "questions" -> in.pre \o RenderQuestions(in.questions, in.spaced) \o in.post
      [] in.kind = "badarray" -> in.text
      [] in.kind = "wrapped" -> Wrap(in.body, in.wrap)
      [] in.kind = "sparse" -> in.text
      [] in.kind = "malformed" -> in.text
      [] in.kind = "long" -> in.text

(***************************************************************************)
(* The state machine: a reply arrives, one extractor operation is applied  *)
(* to it; the reply may then come again inside a code fence, or the review *)
(* may be serialised and fed back, and parseAIResponse is applied again.   *)
(* The service methods take the reply through the provider call; without   *)
(* an API key no provider is called and no reply is on its way.            *)
(***************************************************************************)
\* the configurations of the service: with and without an API key
KeyedConfig == NewAIService([NoEnv EXCEPT !.GEMINI_API_KEY = <<"t","e","s","t","-","k","e","y">>])

KeylessConfig == NewAIService(NoEnv)

Configs == {KeyedConfig, KeylessConfig}

\* every service method asking the provider, whatever the key
OutcomesWhateverKey(cfg, text) == {callLLMWithOpts(cfg, a) : a \in Answers(cfg, text)}

\* what callLLMWithOpts may return to a service configured by cfg: nothing is
\* asked without an API key
Outcomes(cfg, text) ==
    IF cfg.APIKey = <<>> THEN {NoCall}
    ELSE {callLLMWithOpts(cfg, a) : a \in Answers(cfg, text)}

\* the extractor operations
ExtractorCalls == {"parseAIResponse", "parseQuestions", "parseHint", "parseChatResponse"}

\* the operation may be applied now: first, or as the repetition of itself
MayCall(op) == call = "none" /\ llm = NoCall /\ (prior.how = "repeated" => prior.call = op)

NoResult == [panic |-> FALSE]

NoPrior == [how |-> "none"]

Init ==
    /\ input \in Inputs
    /\ reply = TextOf(input)
    /\ call = "none"
    /\ result = NoResult
    /\ prior = NoPrior
    /\ config \in Configs
    /\ config = KeylessConfig => input = [kind |-> "text", text |-> <<>>]
    /\ llm = NoCall
    /\ PageUnused

ParseAIResponse ==
    /\ MayCall("parseAIResponse")
    /\ call' = "parseAIResponse"
    /\ result' = parseAIResponse(reply)
    /\ UNCHANGED <<reply, input, prior, config, llm, browser>>

ParseQuestions ==
    /\ MayCall("parseQuestions")
    /\ prior.how \in {"none", "repeated"}
    /\ call' = "parseQuestions"
    /\ result' = parseQuestions(reply)
    /\ UNCHANGED <<reply, input, prior, config, llm, browser>>

ParseHint ==
    /\ MayCall("parseHint")
    /\ prior.how \in {"none", "repeated"}
    /\ call' = "parseHint"
    /\ result' = parseHint(reply)
    /\ UNCHANGED <<reply, input, prior, config, llm, browser>>

ParseChatResponse ==
    /\ MayCall("parseChatResponse")
    /\ prior.how \in {"none", "repeated"}
    /\ call' = "parseChatResponse"
    /\ result' = parseChatResponse(reply)
    /\ UNCHANGED <<reply, input, prior, config, llm, browser>>

\* the same text arrives again, this time inside a code fence
FenceReply ==
    /\ call = "parseAIResponse"
    /\ prior = NoPrior
    /\ \E w \in Wrappers :
          /\ prior' = [how |-> "fenced", wrap |-> w, reply |-> reply, result |-> result]
          /\ reply' = Wrap(reply, w)
    /\ call' = "none"
    /\ result' = NoResult
    /\ UNCHANGED <<input, config, llm, browser>>

\* a review that was parsed (no fallback) is serialised and fed back
Reserialize ==
    /\ call = "parseAIResponse"
    /\ prior = NoPrior
    /\ ~result.panic
    /\ result.log = "none"
    /\ prior' = [how |-> "reserialized", reply |-> reply, result |-> result]
    /\ reply' = MarshalReview(result.review)
    /\ call' = "none"
    /\ result' = NoResult
    /\ UNCHANGED <<input, config, llm, browser>>

\* the same reply comes again to the same operation, the service being
\* configured otherwise by then
Repeat ==
    /\ call \in ExtractorCalls
    /\ prior = NoPrior
    /\ prior' = [how |-> "repeated", call |-> call, result |-> result]
    /\ config' \in Configs \ {config}
    /\ call' = "none"
    /\ result' = NoResult
    /\ UNCHANGED <<reply, input, llm, browser>>

\* a service method runs: the provider is called, if there is a key, and its
\* reply goes through the extractor
ServeReviewCode ==
    /\ call = "none" /\ prior = NoPrior /\ llm = NoCall
    /\ llm' \in Outcomes(config, reply)
    /\ call' = "ReviewCode"
    /\ result' = ReviewCode(config, llm')
    /\ UNCHANGED <<reply, input, prior, config, browser>>

ServeGetInterviewerQuestions ==
    /\ call = "none" /\ prior = NoPrior /\ llm = NoCall
    /\ llm' \in Outcomes(config, reply)
    /\ call' = "GetInterviewerQuestions"
    /\ result' = GetInterviewerQuestions(config, llm')
    /\ UNCHANGED <<reply, input, prior, config, browser>>

ServeGetCodeHint ==
    /\ call = "none" /\ prior = NoPrior /\ llm = NoCall
    /\ llm' \in Outcomes(config, reply)
    /\ call' = "GetCodeHint"
    /\ result' = GetCodeHint(config, llm')
    /\ UNCHANGED <<reply, input, prior, config, browser>>

ServeChatWithMentor ==
    /\ call = "none" /\ prior = NoPrior /\ llm = NoCall
    /\ llm' \in Outcomes(config, reply)
    /\ call' = "ChatWithMentor"
    /\ result' = ChatWithMentor(config, llm')
    /\ UNCHANGED <<reply, input, prior, config, browser>>

Next ==
    \/ ParseAIResponse
    \/ ParseQuestions
    \/ ParseHint
    \/ ParseChatResponse
    \/ FenceReply
    \/ Reserialize
    \/ Repeat
    \/ ServeReviewCode
    \/ ServeGetInterviewerQuestions
    \/ ServeGetCodeHint
    \/ ServeChatWithMentor

Spec == Init /\ [][Next]_vars

(***************************************************************************)
(* Vocabulary of the properties                                            *)
(***************************************************************************)
HasChar(s, c) == \E i \in 1..Len(s) : s[i] = c

Blank(s) == \A i \in 1..Len(s) : s[i] \in WhiteSpace

\* s, white space aside, begins / ends with a fence marker
FenceLed(s) == \E k \in 0..Len(s) : Blank(SubSeq(s, 1, k)) /\ HasPrefixAt(s, k + 1, Fence)

FenceEnded(s) ==
    \E k \in 3..Len(s) : Blank(SubSeq(s, k + 1, Len(s))) /\ SubSeq(s, k - 2, k) = Fence

\* the review is the canonical total-failure default
IsTotalFailureDefault(r) ==
    /\ r.OverallScore = Float(50)
    /\ r.ReadabilityScore = Float(50)
    /\ ~r.Issues.nil /\ Len(r.Issues.e) = 1
    /\ r.Issues.e[1].Type = <<"p","a","r","s","i","n","g">>
    /\ r.Issues.e[1].Severity = <<"m","e","d","i","u","m">>
    /\ ~r.Suggestions.nil /\ Len(r.Suggestions.e) = 1
    /\ r.Suggestions.e[1].Category = <<"t","r","o","u","b","l","e","s","h","o","o","t","i","n","g">>
    /\ r.Complexity.TimeComplexity = <<"U","n","a","b","l","e"," ","t","o"," ","a","n","a","l","y","z","e">>
    /\ r.Complexity.SpaceComplexity = <<"U","n","a","b","l","e"," ","t","o"," ","a","n","a","l","y","z","e">>
    /\ ~r.Complexity.CanOptimize
    /\ ~r.FollowUpQuestions.nil /\ Len(r.FollowUpQuestions.e) = 3
    /\ \A i \in 1..3 : r.FollowUpQuestions.e[i] # <<>>

\* the three signal fields of a review are at their zero value
SignalsZero(r) ==
    /\ r.OverallScore = Float(0)
    /\ r.ReadabilityScore = Float(0)
    /\ r.InterviewerFeedback = <<>>

\* parseAIResponse was applied to the reply as it first arrived
FirstParse == call = "parseAIResponse" /\ prior = NoPrior

\* two calls of parseAIResponse returned the same
SameOutcome(a, b) == a.panic = b.panic /\ (~a.panic => a.review = b.review)

(***************************************************************************)
(* C1.  For every raw input, parseAIResponse neither panics nor returns an *)
(* error: it returns a review and a nil error.                             *)
(* The code panics on a reply whose last '}' comes before its first '{'.   *)
(***************************************************************************)
C1_NeverRaises == call = "parseAIResponse" => ~result.panic /\ result.err = "nil"

(***************************************************************************)
(* C2.  A reply that is a valid JSON object of the review shape with at    *)
(* least one signal field set is returned field for field, nothing         *)
(* defaulted.                                                              *)
(* The code counts the braces inside string values too and rejects a valid *)
(* object whose texts hold an unpaired brace.                              *)
(***************************************************************************)
IsWholeReviewObject ==
    /\ input.kind = "review"
    /\ input.pre = <<>> /\ input.post = <<>> /\ input.extra = <<>>

C2_ValidObjectReturnedAsIs ==
    (FirstParse /\ IsWholeReviewObject /\ ~SignalsZero(input.review))
        => ~result.panic /\ result.review = input.review

(***************************************************************************)
(* C3.  A reply with no '{' or with no '}' yields the canonical            *)
(* total-failure default.                                                  *)
(***************************************************************************)
C3_NoBraceGivesDefault ==
    (call = "parseAIResponse" /\ (~HasChar(reply, "{") \/ ~HasChar(reply, "}")))
        => ~result.panic /\ IsTotalFailureDefault(result.review)

C3_Witness ==
    /\ call = "parseAIResponse"
    /\ HasChar(reply, "{") /\ ~HasChar(reply, "}")
    /\ input.kind = "truncated"
    /\ ~result.panic /\ result.review.OverallScore = Float(50)

(***************************************************************************)
(* C4.  An object that parses but has overall_score 0, readability_score 0 *)
(* and an empty interviewer_feedback yields the total-failure default and  *)
(* not the parsed object, whatever its other fields hold.                  *)
(***************************************************************************)
C4_AllSignalsZeroGivesDefault ==
    (call = "parseAIResponse" /\ input.kind = "review" /\ SignalsZero(input.review))
        => /\ ~result.panic
           /\ IsTotalFailureDefault(result.review)
           /\ result.review # input.review

C4_Witness ==
    /\ FirstParse
    /\ IsWholeReviewObject
    /\ SignalsZero(input.review)
    /\ Len(input.review.Suggestions.e) = 1
    /\ input.review.Complexity.CanOptimize
    /\ result.log = "all key fields empty"
    /\ IsTotalFailureDefault(result.review)

(***************************************************************************)
(* C5.  As claimed: a candidate with unequal counts of '{' and '}' takes   *)
(* the partial-recovery path, the overall score being the number matched   *)
(* by "overall_score": <digits> in the raw text, 0 without a match, and    *)
(* never the neutral 50.                                                   *)
(* As the code has it: parseAIResponse returns the total-failure default   *)
(* with score 50 and the issue "Incomplete JSON response"; the recovery by *)
(* pattern is handlePartialAIResponse of the browser.                      *)
(***************************************************************************)
\* the span from the first '{' to the last '}' of s, empty when there is none
BraceSpan(s) ==
    LET open == {i \in 1..Len(s) : s[i] = "{"}
        close == {i \in 1..Len(s) : s[i] = "}"}
    IN  IF open = {} \/ close = {} THEN <<>>
        ELSE SubSeq(s, CHOOSE i \in open : \A j \in open : i <= j,
                       CHOOSE i \in close : \A j \in close : i >= j)

UnequalBraces(s) ==
    Cardinality({i \in 1..Len(s) : s[i] = "{"}) # Cardinality({i \in 1..Len(s) : s[i] = "}"})

IncompleteIssue == <<"A","I"," ","r","e","s","p","o","n","s","e"," ","p","a","r","s","i","n","g"," ","i","s","s",
       "u","e",":"," ","I","n","c","o","m","p","l","e","t","e"," ","J","S","O","N"," ","r","e","s",
       "p","o","n","s","e">>

C5_PartialRecoveryScore ==
    (FirstParse /\ ~result.panic /\ UnequalBraces(BraceSpan(reply)))
        => result.review.OverallScore = Float(PatternScore(reply))

C5_UnequalBracesGiveDefault ==
    (call = "parseAIResponse" /\ UnequalBraces(BraceSpan(reply)))
        => /\ ~result.panic
           /\ IsTotalFailureDefault(result.review)
           /\ result.review.Issues.e[1].Description = IncompleteIssue

C5_Witness ==
    /\ FirstParse
    /\ input.kind = "truncated"
    /\ UnequalBraces(BraceSpan(reply))
    /\ PatternScore(reply) = 60
    /\ ~result.panic /\ result.review.OverallScore = Float(50)

(***************************************************************************)
(* C6.  As claimed: a text wrapped in code-fence markers, with or without  *)
(* a language tag, gives the same review as the text unfenced.             *)
(* As the code has it: this holds when the text has both a '{' and a '}';  *)
(* for a text without, whose fallback echoes the stripped reply, it holds  *)
(* when the tag is absent or json, the text does not itself begin or end   *)
(* with a marker and no untagged marker is directly followed by a text     *)
(* that begins with json.                                                  *)
(***************************************************************************)
FencedParse == call = "parseAIResponse" /\ prior.how = "fenced"

C6_FenceMakesNoDifference == FencedParse => SameOutcome(result, prior.result)

\* the fence around the text is one StripCodeBlock removes and nothing more
FenceStripsClean(text, w) ==
    /\ w.tag \in {<<>>, <<"j","s","o","n">>}
    /\ ~FenceLed(text) /\ ~FenceEnded(text)
    /\ ~(w.tag = <<>> /\ w.sep = <<>> /\ HasPrefix(text, <<"j","s","o","n">>))

C6_FenceOfObjectOrCleanFence ==
    (FencedParse /\ ((HasChar(prior.reply, "{") /\ HasChar(prior.reply, "}"))
                     \/ FenceStripsClean(prior.reply, prior.wrap)))
        => SameOutcome(result, prior.result)

C6_Witness ==
    /\ FencedParse
    /\ prior.wrap.tag = <<"j","s","o","n">>
    /\ input.kind = "review"
    /\ ~result.panic /\ result.log = "none"
    /\ result.review = input.review

(***************************************************************************)
(* C7.  When the span from the first '[' to the last ']' is a JSON array   *)
(* of strings, parseQuestions returns exactly those strings in order.      *)
(***************************************************************************)
C7_ArrayReturnedAsIs ==
    (call = "parseQuestions" /\ input.kind = "questions"
        /\ ~HasChar(input.pre, "[") /\ ~HasChar(input.post, "]"))
        => ~result.panic /\ result.questions = SliceOf(input.questions)

C7_Witness ==
    /\ call = "parseQuestions"
    /\ input.kind = "questions"
    /\ input.pre # <<>>
    /\ Len(input.questions) = 3
    /\ result.questions = SliceOf(input.questions)

(***************************************************************************)
(* C8.  parseQuestions is all-or-nothing: without a '[' or a ']', or with  *)
(* a bracketed span that is no JSON array of strings, it returns exactly   *)
(* the three default questions.                                            *)
(* The code panics when the last ']' comes before the first '[', and it    *)
(* returns [""] for [null].                                                *)
(***************************************************************************)
C8_AllOrNothing ==
    (call = "parseQuestions"
        /\ \/ input.kind = "badarray"
           \/ ~HasChar(reply, "[")
           \/ ~HasChar(reply, "]"))
        => ~result.panic /\ result.questions = DefaultQuestions

(***************************************************************************)
(* C9.  parseChatResponse returns the reply without the white space around *)
(* it and without at most one leading and one trailing fence marker (a     *)
(* language tag stays); when nothing is left it returns the fixed          *)
(* continuation sentence, so it never returns the empty string.            *)
(***************************************************************************)
\* p is what parseChatResponse may drop before the text out: white space, and
\* one fence marker amid white space (dropped whenever it is there)
DroppedLead(p, out) ==
    \/ Blank(p) /\ ~HasPrefix(out, Fence)
    \/ \E k \in 0..(Len(p) - 3) :
          /\ Blank(SubSeq(p, 1, k))
          /\ SubSeq(p, k + 1, k + 3) = Fence
          /\ Blank(SubSeq(p, k + 4, Len(p)))

DroppedTail(q, out) ==
    \/ Blank(q) /\ ~HasSuffix(out, Fence)
    \/ \E k \in 0..(Len(q) - 3) :
          /\ Blank(SubSeq(q, 1, k))
          /\ SubSeq(q, k + 1, k + 3) = Fence
          /\ Blank(SubSeq(q, k + 4, Len(q)))

\* raw is out with a droppable lead before it and a droppable tail after it
CleanedFrom(raw, out) ==
    \E i \in 1..(Len(raw) + 1) :
       /\ i + Len(out) - 1 <= Len(raw)
       /\ SubSeq(raw, i, i + Len(out) - 1) = out
       /\ DroppedLead(SubSeq(raw, 1, i - 1), out)
       /\ DroppedTail(SubSeq(raw, i + Len(out), Len(raw)), out)

ContinuationSentence == <<"I","'","m"," ","h","e","r","e"," ","t","o"," ","h","e","l","p","!"," ","C","o","u","l","d",
       " ","y","o","u"," ","r","e","p","h","r","a","s","e"," ","y","o","u","r"," ","q","u","e","s",
       "t","i","o","n","?">>

C9_ChatTextCleaned ==
    call = "parseChatResponse" =>
        /\ ~result.panic
        /\ result.text # <<>>
        /\ IF CleanedFrom(reply, <<>>) THEN result.text = ContinuationSentence
           ELSE /\ CleanedFrom(reply, result.text)
                /\ result.text[1] \notin WhiteSpace
                /\ result.text[Len(result.text)] \notin WhiteSpace

C9_Witness ==
    /\ call = "parseChatResponse"
    /\ input.kind = "wrapped"
    /\ input.wrap.tag = <<"g","o">>
    /\ input.body = <<"h","e","l","l","o">>
    /\ result.text = <<"g","o">> \o input.wrap.sep \o <<"h","e","l","l","o">>

(***************************************************************************)
(* C10.  Round trip: a review that was parsed (no fallback), serialised to *)
(* JSON and fed back, gives the same review.                               *)
(* Because of the brace count of C2 the serialised review is rejected when *)
(* its texts hold an unpaired brace that the first reply balanced          *)
(* elsewhere.                                                              *)
(***************************************************************************)
C10_RoundTrip ==
    (call = "parseAIResponse" /\ prior.how = "reserialized")
        => SameOutcome(result, prior.result)

(***************************************************************************)
(* C11.  Every review parseAIResponse returns is fully populated: its      *)
(* three lists are present (not null), and its feedback, complexity texts  *)
(* and test-coverage text are not empty for the reply having left them     *)
(* out.                                                                    *)
(* The code fills nothing in on the success path: a field the object       *)
(* leaves out stays nil or empty.                                          *)
(***************************************************************************)
ListsPresent(r) == ~r.Issues.nil /\ ~r.Suggestions.nil /\ ~r.FollowUpQuestions.nil

TextsFilled(r) ==
    /\ r.InterviewerFeedback # <<>>
    /\ r.Complexity.TimeComplexity # <<>>
    /\ r.Complexity.SpaceComplexity # <<>>
    /\ r.TestCoverage # <<>>

C11_FullyPopulated ==
    (call = "parseAIResponse" /\ ~result.panic)
        => /\ ListsPresent(result.review)
           /\ input.kind = "sparse" => TextsFilled(result.review)

(***************************************************************************)
(* C12.  ReviewCode, GetInterviewerQuestions, GetCodeHint and              *)
(* ChatWithMentor turn a missing key, a failed provider call and a         *)
(* malformed reply into a returned value with a nil error.                 *)
(* The slice panic of C1 goes through ReviewCode and                       *)
(* GetInterviewerQuestions: for such a reply they return nothing.          *)
(***************************************************************************)
ServiceCalls == {"ReviewCode", "GetInterviewerQuestions", "GetCodeHint", "ChatWithMentor"}

C12_ServiceReturnsValueAndNilError ==
    call \in ServiceCalls => ~result.panic /\ result.err = "nil"

(***************************************************************************)
(* C13.  As claimed: a review ReviewCode made from a provider reply never  *)
(* has the overall score 0, which is kept for the no-key and the           *)
(* provider-error case.                                                    *)
(* As the code has it: without a key and after a provider error the score  *)
(* is 0; a review made from a reply has the score 0 only when it is the    *)
(* parsed object, the reply carries no other overall_score, and the        *)
(* readability score or the feedback is set; the fallback has 50.          *)
(***************************************************************************)
ProviderReplied == llm.called /\ ~llm.failed

C13_ZeroOnlyWithoutReply ==
    (call = "ReviewCode" /\ ~result.panic /\ ProviderReplied)
        => result.review.OverallScore # Float(0)

C13_ZeroOnlyWhenReplySaysSo ==
    (call = "ReviewCode" /\ ~result.panic) =>
        /\ ~ProviderReplied => result.review.OverallScore = Float(0)
        /\ (ProviderReplied /\ IsTotalFailureDefault(result.review))
              => result.review.OverallScore = Float(50)
        /\ (ProviderReplied /\ result.review.OverallScore = Float(0)) =>
              /\ ~IsTotalFailureDefault(result.review)
              /\ PatternScore(reply) = 0
              /\ \/ result.review.ReadabilityScore # Float(0)
                 \/ result.review.InterviewerFeedback # <<>>

C13_Witness ==
    /\ call = "ReviewCode"
    /\ ProviderReplied
    /\ input.kind = "review"
    /\ ~result.panic
    /\ result.review.OverallScore = Float(0)
    /\ result.review.ReadabilityScore = Float(0)
    /\ result.review.InterviewerFeedback = <<"G","o","o","d"," ","j","o","b">>

IsPercentage(f) == f.scale = 0 /\ f.mant <= 100 /\ (f.neg => f.mant = 0)

C15_ScoresArePercentages ==
    (call = "parseAIResponse" /\ ~result.panic)
        => /\ IsPercentage(result.review.OverallScore)
           /\ IsPercentage(result.review.ReadabilityScore)

(***************************************************************************)
(* C16.  A candidate with paired braces that is no JSON object of the      *)
(* shape of a review (bad syntax, or a field of the wrong JSON type)       *)
(* yields the total-failure default whose issue reads "AI response parsing *)
(* issue: JSON parsing error", a description of this failure alone.        *)
(***************************************************************************)
JSONParsingIssue == <<"A","I"," ","r","e","s","p","o","n","s","e"," ","p","a","r","s","i","n","g"," ","i","s","s",
       "u","e",":"," ","J","S","O","N"," ","p","a","r","s","i","n","g"," ","e","r","r","o","r">>

NoJSONIssue == <<"A","I"," ","r","e","s","p","o","n","s","e"," ","p","a","r","s","i","n","g"," ","i","s","s",
       "u","e",":"," ","N","o"," ","J","S","O","N"," ","f","o","u","n","d"," ","i","n"," ","A","I",
       " ","r","e","s","p","o","n","s","e">>

IncompleteReviewIssue == <<"A","I"," ","r","e","s","p","o","n","s","e"," ","p","a","r","s","i","n","g"," ","i","s","s",
       "u","e",":"," ","I","n","c","o","m","p","l","e","t","e"," ","A","I"," ","r","e","s","p","o",
       "n","s","e">>

\* the description of the one issue of a fallback review
IssueOf(r) == r.review.Issues.e[1].Description

C16_UnparsableNamesItsFailure ==
    (call = "parseAIResponse" /\ input.kind = "malformed"
        /\ ~UnequalBraces(BraceSpan(reply)))
        => /\ ~result.panic
           /\ IsTotalFailureDefault(result.review)
           /\ IssueOf(result) = JSONParsingIssue
           /\ IssueOf(result) \notin {NoJSONIssue, IncompleteIssue, IncompleteReviewIssue}

C16_Witness ==
    /\ FirstParse
    /\ input.kind = "malformed"
    /\ BraceSpan(reply) = <<"{","\"","c","o","m","p","l","e","x","i","t","y","\"",":","{","\"","c","a","n","_","o","p",
       "t","i","m","i","z","e","\"",":","\"","y","e","s","\"","}",",","\"","o","v","e","r","a","l",
       "l","_","s","c","o","r","e","\"",":","8","5","}">>
    /\ ~result.panic
    /\ IssueOf(result) = JSONParsingIssue

(***************************************************************************)
(* C17.  As claimed: the feedback of every total-failure default embeds    *)
(* the raw reply, whole up to 500 characters and cut to its first 500      *)
(* followed by "..." beyond, and a fixed sentence when the raw reply is    *)
(* empty.                                                                  *)
(* As the code has it: what is embedded is the text that failed, which is  *)
(* the reply without white space and fence markers around it when a brace  *)
(* is missing, and the candidate from the first '{' to the last '}'        *)
(* otherwise.                                                              *)
(***************************************************************************)
FeedbackLead == <<"I","'","m"," ","h","a","v","i","n","g"," ","t","r","o","u","b","l","e"," ","a","n","a","l",
       "y","z","i","n","g"," ","y","o","u","r"," ","c","o","d","e"," ","a","u","t","o","m","a","t",
       "i","c","a","l","l","y","."," ">>

FeedbackTrail == <<" ","L","e","t","'","s"," ","f","o","c","u","s"," ","o","n"," ","t","h","e"," ","c","o","r",
       "e"," ","l","o","g","i","c"," ","-"," ","c","a","n"," ","y","o","u"," ","w","a","l","k"," ",
       "m","e"," ","t","h","r","o","u","g","h"," ","y","o","u","r"," ","a","p","p","r","o","a","c",
       "h","?">>

EmptyReplySentence == <<"A","I"," ","p","r","o","v","i","d","e","d"," ","a","n"," ","e","m","p","t","y"," ","o","r",
       " ","m","a","l","f","o","r","m","e","d"," ","r","e","s","p","o","n","s","e","."," ","P","l",
       "e","a","s","e"," ","t","r","y"," ","a","g","a","i","n",".">>

\* what the feedback shows of the text t
Echo(t) ==
    IF t = <<>> THEN EmptyReplySentence
    ELSE IF Len(t) <= FallbackEchoLimit THEN t
    ELSE SubSeq(t, 1, FallbackEchoLimit) \o <<".",".",".">>

\* the part of the reply s the extractor gives up on
FailedText(s) ==
    IF HasChar(s, "{") /\ HasChar(s, "}") THEN BraceSpan(s) ELSE StripCodeBlock(s)

\* parseAIResponse returned a fallback review
FellBack == call = "parseAIResponse" /\ ~result.panic /\ result.log # "none"

C17_FeedbackEchoesRawReply ==
    FellBack => result.review.InterviewerFeedback = FeedbackLead \o Echo(reply) \o FeedbackTrail

C17_FeedbackEchoesFailedText ==
    FellBack =>
        result.review.InterviewerFeedback = FeedbackLead \o Echo(FailedText(reply)) \o FeedbackTrail

C17_Witness ==
    /\ FellBack
    /\ input.kind = "long"
    /\ HasPrefix(reply, <<"s","e","e"," ","{">>)
    /\ Len(BraceSpan(reply)) > FallbackEchoLimit
    /\ result.review.InterviewerFeedback
         = FeedbackLead \o SubSeq(BraceSpan(reply), 1, FallbackEchoLimit) \o <<".",".",".">> \o FeedbackTrail

(***************************************************************************)
(* C18.  Prose around the object is ignored: for an object text J that     *)
(* parseAIResponse takes, and a prefix and a suffix without braces,        *)
(* parseAIResponse of prefix, J and suffix returns what it returns for J.  *)
(***************************************************************************)
\* the object text of a reply that is a review amid prose
ObjectText == RenderReview(input.review, input.spaced, input.extra)

Succeeds(r) == ~r.panic /\ r.log = "none"

C18_ProseAroundIgnored ==
    (FirstParse /\ input.kind = "review"
        /\ ~HasChar(input.pre, "{") /\ ~HasChar(input.pre, "}")
        /\ ~HasChar(input.post, "{") /\ ~HasChar(input.post, "}")
        /\ Succeeds(parseAIResponse(ObjectText)))
        => SameOutcome(result, parseAIResponse(ObjectText))

C18_Witness ==
    /\ FirstParse
    /\ input.kind = "review"
    /\ input.pre # <<>> /\ input.post # <<>>
    /\ Succeeds(result)
    /\ Len(input.review.Issues.e) = 2
    /\ result.review = input.review

(***************************************************************************)
(* C19.  The validation gate fires only when all three signal fields are   *)
(* zero together: an object that parses with both scores 0 and a feedback, *)
(* or with one score set, is returned as parsed, its zero scores kept.     *)
(***************************************************************************)
C19_GateNeedsAllThreeZero ==
    (FirstParse /\ input.kind = "review"
        /\ ~SignalsZero(input.review)
        /\ ~UnequalBraces(BraceSpan(reply)))
        => /\ ~result.panic
           /\ result.log = "none"
           /\ result.review = input.review

C19_Witness ==
    /\ FirstParse
    /\ input.kind = "review"
    /\ input.review.OverallScore = Float(0)
    /\ input.review.ReadabilityScore = Float(0)
    /\ input.review.InterviewerFeedback = <<"G","o","o","d"," ","j","o","b">>
    /\ result.log = "none"
    /\ result.review = input.review
    /\ IsZero(result.review.OverallScore) /\ IsZero(result.review.ReadabilityScore)

(***************************************************************************)
(* C20.  The slice that cuts the candidate out is in range: a reply whose  *)
(* last closing delimiter comes before its first opening one is a failure  *)
(* that returns the default.                                               *)
(* The code tests the two indices against -1 only and slices               *)
(* response[start : end+1] with start > end+1.                             *)
(***************************************************************************)
\* s has both delimiters, every close before every open
ClosesBeforeOpens(s, open, close) ==
    /\ HasChar(s, open) /\ HasChar(s, close)
    /\ \A i, j \in 1..Len(s) : (s[i] = close /\ s[j] = open) => i < j

C20_SliceInRange ==
    /\ (call = "parseAIResponse" /\ ClosesBeforeOpens(reply, "{", "}"))
          => ~result.panic /\ IsTotalFailureDefault(result.review)
    /\ (call = "parseQuestions" /\ ClosesBeforeOpens(reply, "[", "]"))
          => ~result.panic /\ result.questions = DefaultQuestions


(***************************************************************************)
(* company-onboarding.js: requestAIReview and handlePartialAIResponse, the *)
(* page's recovery from a review body that JSON.parse rejected             *)
(***************************************************************************)
\* the least element of a non-empty set of positions
First(S) == CHOOSE i \in S : \A j \in S : i <= j

\* String.prototype.includes
Includes(s, sub) == \E i \in 1..Len(s) : HasPrefixAt(s, i, sub)

\* String.prototype.trim, over the white space the replies hold
trim(s) == TrimSpace(s)

\* what String.prototype.match returns: null, or the text of the first group
NoMatch == [found |-> FALSE, text |-> <<>>]

Match(text) == [found |-> TRUE, text |-> text]

\* responseText.match(/^([^{]+)/): the text in front of the first brace
LeadOf(s, brace) ==
    IF brace = 0 \/ Len(s) = 0 THEN NoMatch
    ELSE Match(SubSeq(s, 1, IF brace < 0 THEN Len(s) ELSE brace))

MessageMatch(s) == LeadOf(s, Index(s, "{"))

IssuesKey == <<"\"","i","s","s","u","e","s","\"",":">>

\* "issues":\s*\[ matches at position i
IssuesOpenAt(s, i) ==
    HasPrefixAt(s, i, IssuesKey) /\ At(s, SkipSpaceLeft(s, i + Len(IssuesKey))) = "["

\* (.*?)(?:\]|$) from position `from`: up to the first bracket, else to the end
CapturedUpTo(s, from, closes) ==
    SubSeq(s, from, IF closes = {} THEN Len(s) ELSE First(closes) - 1)

CapturedIssues(s, from) == CapturedUpTo(s, from, {j \in from..Len(s) : s[j] = "]"})

FirstIssuesMatch(s, hits) ==
    IF hits = {} THEN NoMatch
    ELSE Match(CapturedIssues(s, SkipSpaceLeft(s, First(hits) + Len(IssuesKey)) + 1))

\* responseText.match(/"issues":\s*\[(.*?)(?:\]|$)/s)
IssuesMatch(s) == FirstIssuesMatch(s, {i \in 1..Len(s) : IssuesOpenAt(s, i)})

\* the separator /},\s*{/ matches at position i
SeparatorAt(s, i) ==
    At(s, i) = "}" /\ At(s, i + 1) = "," /\ At(s, SkipSpaceLeft(s, i + 2)) = "{"

RECURSIVE SplitFrom(_, _)
SplitAt(s, from, seps) ==
    IF seps = {} THEN <<SubSeq(s, from, Len(s))>>
    ELSE <<SubSeq(s, from, First(seps) - 1)>>
         \o SplitFrom(s, SkipSpaceLeft(s, First(seps) + 2) + 1)

SplitFrom(s, from) == SplitAt(s, from, {i \in from..Len(s) : SeparatorAt(s, i)})

\* issuesText.split(/},\s*{/)
SplitObjects(s) == SplitFrom(s, 1)

\* objects.join('},{')
RECURSIVE JoinObjects(_)
JoinObjects(objects) ==
    IF Len(objects) = 0 THEN <<>>
    ELSE IF Len(objects) = 1 THEN objects[1]
    ELSE objects[1] \o <<"}",",","{">> \o JoinObjects(Tail(objects))

\* the single object, closed when it does not end with a brace
CompleteSingle(object) ==
    IF HasSuffix(object, <<"}">>) THEN object ELSE object \o <<"\"","}">>

\* the repair of a fragment that does not end with a brace
RepairObjects(issuesText, objects) ==
    IF Len(objects) > 1
    THEN JoinObjects(SubSeq(objects, 1, Len(objects) - 1)) \o <<"}">>
    ELSE IF Includes(objects[1], <<"\"","t","y","p","e","\"">>) /\ Includes(objects[1], <<"\"","d","e","s","c","r","i","p","t","i","o","n","\"">>)
    THEN CompleteSingle(objects[1])
    ELSE issuesText

RepairIssues(issuesText) ==
    IF HasSuffix(issuesText, <<"}">>) THEN issuesText
    ELSE RepairObjects(issuesText, SplitObjects(issuesText))

GenericParsingMessage == <<"A","I"," ","r","e","s","p","o","n","s","e"," ","p","a","r","s","i","n","g"," ","i","s","s",
       "u","e",":"," ","I","n","c","o","m","p","l","e","t","e"," ","J","S","O","N"," ","r","e","s",
       "p","o","n","s","e">>

\* messageMatch ? messageMatch[1].trim() : the generic message
MessageText(m) == IF m.found THEN trim(m.text) ELSE GenericParsingMessage

\* the issue the page makes up when it recovers none
ParsingIssue(responseText) ==
    [type |-> <<"p","a","r","s","i","n","g">>, severity |-> <<"m","e","d","i","u","m">>,
     description |-> MessageText(MessageMatch(responseText)),
     solution |-> <<"T","r","y"," ","r","u","n","n","i","n","g"," ","t","h","e"," ","A","I"," ","r","e","v","i",
       "e","w"," ","a","g","a","i","n",","," ","o","r"," ","c","h","e","c","k"," ","y","o","u","r",
       " ","c","o","d","e"," ","f","o","r"," ","s","y","n","t","a","x"," ","i","s","s","u","e","s",
       ".">>]

\* extractedInfo.issues: parsed is JSON.parse of the bracketed repaired fragment
IssuesOr(parsed, responseText) ==
    IF parsed.ok THEN [recovered |-> TRUE, list |-> parsed.v.e]
    ELSE [recovered |-> FALSE, list |-> <<ParsingIssue(responseText)>>]

ExtractedIssues(responseText, m) ==
    IF m.found
    THEN IssuesOr(ParseJSON(<<"[">> \o RepairIssues(m.text) \o <<"]">>), responseText)
    ELSE [recovered |-> FALSE, list |-> <<ParsingIssue(responseText)>>]

DefaultMentorFeedback == <<"I","'","m"," ","h","a","v","i","n","g"," ","t","r","o","u","b","l","e"," ","a","n","a","l",
       "y","z","i","n","g"," ","y","o","u","r"," ","c","o","d","e"," ","a","u","t","o","m","a","t",
       "i","c","a","l","l","y",".">>

\* extractedInfo.mentor_feedback: the trimmed lead when it is not empty
MentorFeedback(m) ==
    IF m.found /\ trim(m.text) # <<>> THEN trim(m.text) ELSE DefaultMentorFeedback

\* the object handlePartialAIResponse returns; its suggestions, complexity and
\* follow_up_questions are fixed literals and are left out
handlePartialAIResponse(responseText) ==
    [overall_score |-> PatternScore(responseText),
     issues |-> ExtractedIssues(responseText, IssuesMatch(responseText)),
     mentor_feedback |-> MentorFeedback(MessageMatch(responseText))]

\* requestAIReview, from the body of the HTTP response on: JSON.parse, and the
\* recovery when it throws
ReviewOf(responseText, parsed) ==
    IF parsed.ok THEN [partial |-> FALSE, value |-> parsed.v]
    ELSE [partial |-> TRUE] @@ handlePartialAIResponse(responseText)

requestAIReview(responseText) == ReviewOf(responseText, ParseJSON(responseText))

(***************************************************************************)
(* The page receiving a review body: the server's JSON, whole or cut off   *)
(* at any character, bare or behind a lead                                 *)
(***************************************************************************)
Leads == {<<>>, <<"\n">>, <<"S","u","r","e","."," ">>}

ReviewBodies == {MarshalReview(CutReview), RenderReview(CutReview, <<" ">>, <<>>)}

Cuts(l, b) == {[kind |-> "body", lead |-> l, body |-> b, keep |-> n] : n \in 0..Len(b)}

BodyInputs == UNION {Cuts(l, b) : l \in Leads, b \in ReviewBodies}

BodyOf(in) == in.lead \o SubSeq(in.body, 1, in.keep)

InitPage ==
    /\ input \in BodyInputs
    /\ reply = BodyOf(input)
    /\ call = "none"
    /\ result = NoResult
    /\ prior = NoPrior
    /\ config = KeyedConfig
    /\ llm = NoCall
    /\ PageUnused

\* the body parses: the page shows the review as sent
ShowReview ==
    /\ call = "none"
    /\ ParseJSON(reply).ok
    /\ call' = "requestAIReview"
    /\ result' = requestAIReview(reply)
    /\ UNCHANGED <<reply, input, prior, config, llm, browser>>

\* the body does not parse: the page shows what handlePartialAIResponse recovers
RecoverPartial ==
    /\ call = "none"
    /\ ~ParseJSON(reply).ok
    /\ call' = "handlePartialAIResponse"
    /\ result' = requestAIReview(reply)
    /\ UNCHANGED <<reply, input, prior, config, llm, browser>>

NextPage == ShowReview \/ RecoverPartial

SpecPage == InitPage /\ [][NextPage]_vars

(***************************************************************************)
(* C21, C22: what partial recovery keeps                                   *)
(***************************************************************************)
\* the fragment that the issues pattern captured from the reply
Fragment == IssuesMatch(reply).text

\* the complete JSON values at the head of a fragment, in order
RECURSIVE CompleteFrom(_, _)
CompleteAfter(s, r) ==
    IF ~r.ok THEN <<>>
    ELSE IF At(s, SkipSpaceLeft(s, r.n)) = ","
    THEN <<r.v>> \o CompleteFrom(s, SkipSpaceLeft(s, SkipSpaceLeft(s, r.n) + 1))
    ELSE <<r.v>>

CompleteFrom(s, i) == CompleteAfter(s, ParseValue(s, i))

CompleteObjects(s) == CompleteFrom(s, SkipSpaceLeft(s, 1))

IsPrefixOf(a, b) == Len(a) <= Len(b) /\ SubSeq(b, 1, Len(a)) = a

Recovering == call = "handlePartialAIResponse"

CutFragment == Recovering /\ IssuesMatch(reply).found /\ ~HasSuffix(Fragment, <<"}">>)

\* C21: in partial recovery, when the captured issues fragment does not end with a
\* closing brace, every complete issue object of the fragment is kept, in its
\* original order, in the returned issues list
C21_CompleteIssuesKept ==
    CutFragment =>
        IsPrefixOf(CompleteObjects(Fragment), result.issues.list)

\* C22: in partial recovery, when no issues are recovered, the issues list is one
\* parsing issue of medium severity whose description is the non-empty text in
\* front of the first brace, or the generic message when there is no such text or
\* only white space; the description is never empty
LeadText == IF MessageMatch(reply).found THEN trim(MessageMatch(reply).text) ELSE <<>>

C22_ParsingIssueDescribed ==
    (Recovering /\ ~result.issues.recovered) =>
        /\ Len(result.issues.list) = 1
        /\ result.issues.list[1].type = <<"p","a","r","s","i","n","g">>
        /\ result.issues.list[1].severity = <<"m","e","d","i","u","m">>
        /\ result.issues.list[1].description =
              (IF LeadText # <<>> THEN LeadText ELSE GenericParsingMessage)
        /\ result.issues.list[1].description # <<>>

(***************************************************************************)
(* C23: the service without an API key                                     *)
(***************************************************************************)
\* what each service method returns without an API key; of the chat response the
\* message, the success flag and the error (its time stamp is the clock's)
KeyRequiredValue(op) ==
    CASE op = "ReviewCode" -> [review |-> KeyRequiredReview]
      [] op = "GetInterviewerQuestions" -> [questions |-> SliceOf(<<KeyRequired>>)]
      [] op = "GetCodeHint" -> [text |-> KeyRequired]
      [] op = "ChatWithMentor" ->
           [chat |-> [Message |-> WarningSign \o <<" ","A","I"," ","c","h","a","t"," ","r","e","q","u","i","r","e","s"," ","a","n"," ","A","P",
       "I"," ","k","e","y","."," ","G","e","t"," ","y","o","u","r"," ","f","r","e","e"," ","k","e",
       "y"," ","a","t",":"," ","h","t","t","p","s",":","/","/","m","a","k","e","r","s","u","i","t",
       "e",".","g","o","o","g","l","e",".","c","o","m","/","a","p","p","/","a","p","i","k","e","y">>,
                      Success |-> FALSE,
                      Error |-> <<"A","P","I"," ","k","e","y"," ","n","o","t"," ","c","o","n","f","i","g","u","r","e","d">>]]

Keyless == config.APIKey = <<>>

\* C23: with an empty API key, ReviewCode, GetInterviewerQuestions, GetCodeHint and
\* ChatWithMentor each return their fixed API-key-required value and a nil error,
\* and the provider has not been called (no prompt was built for it)
C23_NoKeyNoCall ==
    (call \in ServiceCalls /\ Keyless) =>
        /\ llm = NoCall
        /\ result = Returned(KeyRequiredValue(call) @@ [err |-> "nil"])

C23_Witness ==
    /\ call = "ChatWithMentor"
    /\ Keyless
    /\ llm = NoCall
    /\ ~result.panic
    /\ ~result.chat.Success
    /\ result.chat.Error = <<"A","P","I"," ","k","e","y"," ","n","o","t"," ","c","o","n","f","i","g","u","r","e","d">>

(***************************************************************************)
(* The service as NewAIService builds it from an environment: the four     *)
(* service methods on the config of every environment                      *)
(***************************************************************************)
ProviderSettings ==
    {<<>>, <<"g","e","m","i","n","i">>, <<"O","p","e","n","A","I">>, <<"c","l","a","u","d","e">>, <<"C","L","A","U","D","E">>, <<"m","i","s","t","r","a","l">>, <<" ","o","p","e","n","a","i">>, <<"G","e","m","i","n","i"," ">>}

Environments ==
    {[AI_PROVIDER |-> p, GEMINI_API_KEY |-> g, OPENAI_API_KEY |-> o,
      CLAUDE_API_KEY |-> c, AI_API_KEY |-> k, AI_MODEL |-> m] :
        p \in ProviderSettings, g \in {<<>>, <<"g","-","k","e","y">>}, o \in {<<>>, <<"o","-","k","e","y">>},
        c \in {<<>>, <<"c","-","k","e","y">>}, k \in {<<>>, <<"a","n","y","-","k","e","y">>}, m \in {<<>>, <<"g","p","t","-","4","o">>}}

InitService ==
    /\ input \in {[kind |-> "env", env |-> e] : e \in Environments}
    /\ reply = MarshalReview(GoodReview)
    /\ call = "none"
    /\ result = NoResult
    /\ prior = NoPrior
    /\ config = NewAIService(input.env)
    /\ llm = NoCall
    /\ PageUnused

NextService ==
    \/ ServeReviewCode
    \/ ServeGetInterviewerQuestions
    \/ ServeGetCodeHint
    \/ ServeChatWithMentor

SpecService == InitService /\ [][NextService]_vars

(***************************************************************************)
(* C24: the provider of a service is one the service can call              *)
(***************************************************************************)
SupportedProviders == {<<"g","e","m","i","n","i">>, <<"o","p","e","n","a","i">>, <<"c","l","a","u","d","e">>}

\* the provider an AI_PROVIDER setting selects
SelectedProvider(setting) ==
    IF ToLower(setting) \in SupportedProviders THEN ToLower(setting) ELSE <<"g","e","m","i","n","i">>

BaseURLOf(provider) ==
    CASE provider = <<"g","e","m","i","n","i">> -> <<"h","t","t","p","s",":","/","/","g","e","n","e","r","a","t","i","v","e","l","a","n","g","u",
       "a","g","e",".","g","o","o","g","l","e","a","p","i","s",".","c","o","m","/","v","1","b","e",
       "t","a","/","m","o","d","e","l","s">>
      [] provider = <<"o","p","e","n","a","i">> -> <<"h","t","t","p","s",":","/","/","a","p","i",".","o","p","e","n","a","i",".","c","o","m","/",
       "v","1","/","c","h","a","t","/","c","o","m","p","l","e","t","i","o","n","s">>
      [] provider = <<"c","l","a","u","d","e">> -> <<"h","t","t","p","s",":","/","/","a","p","i",".","a","n","t","h","r","o","p","i","c",".","c",
       "o","m","/","v","1","/","m","e","s","s","a","g","e","s">>

DefaultModelOf(provider) ==
    CASE provider = <<"g","e","m","i","n","i">> -> <<"g","e","m","i","n","i","-","2",".","5","-","f","l","a","s","h">>
      [] provider = <<"o","p","e","n","a","i">> -> <<"g","p","t","-","4","o","-","m","i","n","i">>
      [] provider = <<"c","l","a","u","d","e">> -> <<"c","l","a","u","d","e","-","3","-","s","o","n","n","e","t","-","2","0","2","4","0","2","2",
       "9">>

\* C24: for every AI_PROVIDER setting the provider of the service NewAIService
\* builds is gemini, openai or claude (gemini for an unrecognized or empty
\* setting), its base URL is that provider's and so is its model when AI_MODEL
\* is not set; callLLMWithOpts never returns the unsupported-provider error
C24_ProviderSupported ==
    /\ config.Provider \in SupportedProviders
    /\ config.Provider = SelectedProvider(input.env.AI_PROVIDER)
    /\ config.BaseURL = BaseURLOf(config.Provider)
    /\ input.env.AI_MODEL = <<>> => config.Model = DefaultModelOf(config.Provider)
    /\ (llm.called /\ llm.failed) => ~HasPrefix(llm.err, <<"u","n","s","u","p","p","o","r","t","e","d"," ","p","r","o","v","i","d","e","r">>)

C24_Witness ==
    /\ input.env.AI_PROVIDER = <<"m","i","s","t","r","a","l">>
    /\ config.Provider = <<"g","e","m","i","n","i">>
    /\ call = "GetCodeHint"
    /\ llm.called
    /\ ~llm.failed

(***************************************************************************)
(* company-onboarding.js: AIMentorChat.  A message is its role and its     *)
(* content; the content is the number n of the exchange and what kind of   *)
(* text it is (time stamps are the clock's and are left out).  Delayed     *)
(* saves (addMessageToChat, 500 ms) write the history that the save of     *)
(* sendChatMessage has already written.                                    *)
(***************************************************************************)
\* conversationHistory.length > 20
HistoryLimit == 20

\* the exchanges of one run of the chat, and how many of them may fail
MaxExchanges == 12

MaxFailed == 2

Message(role, n, text) == [role |-> role, content |-> [n |-> n, text |-> text]]

\* the text of the chat input: blank, or the next question
Questions == {[blank |-> TRUE], [blank |-> FALSE]}

\* the greatest element of a set of numbers, 0 when it is empty
Greatest(S) == IF S = {} THEN 0 ELSE CHOOSE n \in S : \A m \in S : m <= n

\* the number of the exchange a new question opens
NextExchange(shown, sent) ==
    1 + Greatest({shown[i].content.n : i \in 1..Len(shown)} \cup sent)

\* conversationHistory.slice(-HistoryLimit)
LastOf(history, limit) ==
    IF Len(history) > limit THEN SubSeq(history, Len(history) - limit + 1, Len(history))
    ELSE history

\* the history kept whole
Unlimited(history) == history

\* if (this.conversationHistory.length > 20) ... slice(-20)
Limited(history) == LastOf(history, HistoryLimit)

\* the history after the exchange n succeeded: push of the pair, then the limit
Pushed(history, n) ==
    Limited(history \o <<Message("user", n, "question"), Message("assistant", n, "answer")>>)

\* the guard of sendChatMessage, blind to the typing flag
IgnoredWhenBlank(message, typing) == message.blank

\* if (!message || this.isTyping) return
Ignored(message, typing) == message.blank \/ typing

\* the messages shown that report a failed exchange
FailedShown(shown) == {i \in 1..Len(shown) : shown[i].content.text \in {"refusal", "trouble"}}

InitChat ==
    /\ reply = <<>>
    /\ input = [kind |-> "text", text |-> <<>>]
    /\ call = "none"
    /\ result = NoResult
    /\ prior = NoPrior
    /\ config = KeyedConfig
    /\ llm = NoCall
    /\ PageUnused

\* sendChatMessage up to its await: the message is shown, the typing indicator
\* is on, the request is on its way; or nothing at all
SendChatMessage ==
    \E message \in Questions :
        /\ NextExchange(chatMessages, chatRequests) <= MaxExchanges
        /\ call' = "sendChatMessage"
        /\ IF Ignored(message, isTyping)
           THEN /\ result' = [sent |-> FALSE]
                /\ UNCHANGED chat
           ELSE /\ result' = [sent |-> TRUE]
                /\ chatMessages' =
                       Append(chatMessages,
                              Message("user", NextExchange(chatMessages, chatRequests), "question"))
                /\ isTyping' = TRUE
                /\ chatRequests' = chatRequests \cup {NextExchange(chatMessages, chatRequests)}
                /\ UNCHANGED conversationHistory
        /\ UNCHANGED <<server, session, localStorage>>

\* sendChatMessage after its await, chatResponse.success: the answer is shown,
\* the pair is pushed, the history is limited and saved
ChatAnswered ==
    \E n \in chatRequests :
        /\ call' = "chatAnswered"
        /\ result' = [n |-> n]
        /\ isTyping' = FALSE
        /\ chatMessages' = Append(chatMessages, Message("assistant", n, "answer"))
        /\ conversationHistory' = Pushed(conversationHistory, n)
        /\ localStorage' = [localStorage EXCEPT !.chat = Pushed(conversationHistory, n)]
        /\ chatRequests' = chatRequests \ {n}
        /\ UNCHANGED <<server, session>>

\* sendChatMessage after its await, a reply that is not a success
ChatRefused ==
    \E n \in chatRequests :
        /\ Cardinality(FailedShown(chatMessages)) < MaxFailed
        /\ call' = "chatRefused"
        /\ result' = [n |-> n]
        /\ isTyping' = FALSE
        /\ chatMessages' = Append(chatMessages, Message("assistant", n, "refusal"))
        /\ chatRequests' = chatRequests \ {n}
        /\ UNCHANGED <<server, session, conversationHistory, localStorage>>

\* sendChatMessage, the catch: fetch rejected, HTTP status not ok, body not JSON
ChatFailed ==
    \E n \in chatRequests :
        /\ Cardinality(FailedShown(chatMessages)) < MaxFailed
        /\ call' = "chatFailed"
        /\ result' = [n |-> n]
        /\ isTyping' = FALSE
        /\ chatMessages' = Append(chatMessages, Message("assistant", n, "trouble"))
        /\ chatRequests' = chatRequests \ {n}
        /\ UNCHANGED <<server, session, conversationHistory, localStorage>>

\* clearChatHistoryWithConfirmation, confirmed
ClearChatHistory ==
    /\ Len(conversationHistory) > 0
    /\ call' = "clearChatHistory"
    /\ result' = NoResult
    /\ localStorage' = [localStorage EXCEPT !.chat = <<>>]
    /\ conversationHistory' = <<>>
    /\ chatMessages' = <<>>
    /\ UNCHANGED <<server, session, isTyping, chatRequests>>

\* the page is loaded again: the constructor, loadChatHistory; the requests of
\* the page that is gone settle nowhere
ReloadChat ==
    /\ call' = "loadChatHistory"
    /\ result' = NoResult
    /\ conversationHistory' = localStorage.chat
    /\ isTyping' = FALSE
    /\ chatMessages' = localStorage.chat
    /\ chatRequests' = {}
    /\ UNCHANGED <<server, session, localStorage>>

NextChat ==
    \/ SendChatMessage
    \/ ChatAnswered
    \/ ChatRefused
    \/ ChatFailed
    \/ ClearChatHistory
    \/ ReloadChat

SpecChat == InitChat /\ [][NextChat]_vars

(***************************************************************************)
(* C25, C26: the history of the chat and its one request at a time         *)
(***************************************************************************)
IsAnswer(m) == m.role = "assistant" /\ m.content.text = "answer"

\* the exchanges whose answers are shown, in the order of the answers
AnsweredShown == SelectSeq(chatMessages, IsAnswer)

\* the question and the answer of each of the exchanges, in order
PairsOf(answers) ==
    [i \in 1..(2 * Len(answers)) |->
        IF i % 2 = 1 THEN Message("user", answers[(i + 1) \div 2].content.n, "question")
        ELSE Message("assistant", answers[i \div 2].content.n, "answer")]

Chronological ==
    \A i, j \in 1..Len(conversationHistory) :
        i < j => conversationHistory[i].content.n <= conversationHistory[j].content.n

FailedExchange == call' \in {"chatRefused", "chatFailed"}

\* C25: conversationHistory holds at most 20 messages; they are the questions and
\* answers of the most recent answered exchanges, as user/assistant pairs in
\* chronological order; a failed exchange (HTTP error, rejected request, reply
\* that is not a success) leaves conversationHistory unchanged
C25_HistoryKeepsLatest ==
    /\ [](/\ Len(conversationHistory) <= HistoryLimit
          /\ conversationHistory = LastOf(PairsOf(AnsweredShown), HistoryLimit)
          /\ Chronological)
    /\ [][FailedExchange => conversationHistory' = conversationHistory]_vars

C25_Witness ==
    /\ call = "chatAnswered"
    /\ Len(conversationHistory) = HistoryLimit
    /\ conversationHistory[1].content.n > 1
    /\ FailedShown(chatMessages) # {}
    /\ Len(AnsweredShown) > HistoryLimit \div 2

\* C26: at most one mentor-chat request is outstanding; sendChatMessage invoked
\* while a request is outstanding sends no request, shows no message and leaves
\* conversationHistory unchanged; isTyping is false whenever no request is
\* outstanding
SentWhileOutstanding == call' = "sendChatMessage" /\ chatRequests # {}

C26_OneRequestAtATime ==
    /\ [](/\ Cardinality(chatRequests) <= 1
          /\ chatRequests = {} => ~isTyping)
    /\ [][SentWhileOutstanding =>
             /\ ~result'.sent
             /\ UNCHANGED <<chatRequests, chatMessages, conversationHistory>>]_vars

C26_Witness ==
    /\ call = "sendChatMessage"
    /\ ~result.sent
    /\ chatRequests # {}
    /\ isTyping
    /\ Len(conversationHistory) > 0

(***************************************************************************)
(* company-onboarding.js: CompanyOnboarding, the learning session.  A      *)
(* challenge is known by its id: the basic challenges by their numbers,    *)
(* the two challenges of a package by the ids the packages API gives them. *)
(* saveProgress follows every change of this.progress, so the saved        *)
(* progress is the progress.                                               *)
(***************************************************************************)
\* the pending timers of markChallengeComplete one run may hold
MaxTimers == 2

\* the fetches of challenges one run may have under way
MaxLoads == 1

\* what the user may tick in the setup dialog
BasicChoices == {<<1>>}

PackageChoices == {<<>>, <<"gin">>}

\* challenge.id of the challenge `number` of a package
PackageChallengeId(packageName, number) ==
    CASE packageName = "gin" -> 100 + number

\* the id of the challenge loadCurrentChallenge asks for, 0 when the package of
\* the index does not exist (loadPackageChallenge throws and shows a toast)
PackageChallengeAt(packages, packageIndex) ==
    IF packageIndex \div 2 + 1 <= Len(packages)
    THEN PackageChallengeId(packages[packageIndex \div 2 + 1], (packageIndex % 2) + 1)
    ELSE 0

ChallengeAt(basics, packages, index) ==
    IF index < Len(basics) THEN basics[index + 1]
    ELSE PackageChallengeAt(packages, index - Len(basics))

\* loadCurrentChallenge up to its await: the fetches under way afterwards
Fetching(under, id) == IF id = 0 THEN under ELSE under \cup {id}

\* a handler that loads a challenge may run
MayLoad == Cardinality(loading) < MaxLoads

loadCurrentChallenge(basics, packages, index) ==
    Fetching(loading, ChallengeAt(basics, packages, index))

\* the plan prepareLearningPlan makes of the selection
PlanOf(basics, packages) ==
    [basicChallenges |-> basics, packages |-> packages,
     totalChallenges |-> Len(basics) + Len(packages) * 2, set |-> TRUE]

Includes1(list, id) == \E i \in 1..Len(list) : list[i] = id

\* progress.completedChallenges after markChallengeComplete
Completed(list, id) == IF Includes1(list, id) THEN list ELSE Append(list, id)

\* Math.round((completedCount / totalChallenges) * 100), 0 without challenges
progressPercent(p) ==
    IF p.learningPlan.totalChallenges > 0
    THEN (200 * Len(p.completedChallenges) + p.learningPlan.totalChallenges)
             \div (2 * p.learningPlan.totalChallenges)
    ELSE 0

\* updateProgress: the percentage on the page afterwards
updateProgress(p) == IF p.learningPlan.set THEN progressPercent(p) ELSE progressPercentage

\* the index nextChallenge leaves
Advanced(index, plan) == IF index < plan.totalChallenges - 1 THEN index + 1 ELSE index

Idle == <<server, call, result, chat>>

InitSession ==
    /\ reply = <<>>
    /\ input = [kind |-> "text", text |-> <<>>]
    /\ call = "none"
    /\ result = NoResult
    /\ prior = NoPrior
    /\ config = KeyedConfig
    /\ llm = NoCall
    /\ PageUnused

\* updateBasicChallengeSelection: the boxes ticked in the setup dialog
UpdateBasicChallengeSelection ==
    \E basics \in BasicChoices :
        /\ screen = "overview"
        /\ selectedBasicChallenges' = basics
        /\ UNCHANGED <<Idle, localStorage, progress, selectedPackages, learningPlan,
                       currentChallengeIndex, currentChallenge, loading, submitting,
                       timers, progressPercentage, screen, resumeCard>>

\* updatePackageSelection
UpdatePackageSelection ==
    \E packages \in PackageChoices :
        /\ screen = "overview"
        /\ selectedPackages' = packages
        /\ UNCHANGED <<Idle, localStorage, progress, selectedBasicChallenges, learningPlan,
                       currentChallengeIndex, currentChallenge, loading, submitting,
                       timers, progressPercentage, screen, resumeCard>>

\* startLearningSession: prepareLearningPlan, saveProgress, loadCurrentChallenge;
\* the dialog reaches its start button with a basic challenge ticked
StartLearningSession ==
    /\ screen = "overview"
    /\ MayLoad
    /\ Len(selectedBasicChallenges) > 0
    /\ learningPlan' = PlanOf(selectedBasicChallenges, selectedPackages)
    /\ progress' = [progress EXCEPT !.learningPlan = learningPlan']
    /\ localStorage' = [localStorage EXCEPT !.progress = progress']
    /\ screen' = "session"
    /\ loading' = loadCurrentChallenge(selectedBasicChallenges, selectedPackages,
                                       currentChallengeIndex)
    /\ UNCHANGED <<Idle, selectedBasicChallenges, selectedPackages, currentChallengeIndex,
                   currentChallenge, submitting, timers, progressPercentage, resumeCard>>

\* resumeProgress, the Continue button of the card on the overview
ResumeProgress ==
    /\ screen = "overview"
    /\ MayLoad
    /\ resumeCard
    /\ selectedBasicChallenges' = progress.learningPlan.basicChallenges
    /\ selectedPackages' = progress.learningPlan.packages
    /\ learningPlan' = progress.learningPlan
    /\ currentChallengeIndex' = Len(progress.completedChallenges)
    /\ screen' = "session"
    /\ loading' = loadCurrentChallenge(selectedBasicChallenges', selectedPackages',
                                       currentChallengeIndex')
    /\ UNCHANGED <<Idle, localStorage, progress, currentChallenge, submitting, timers,
                   progressPercentage, resumeCard>>

\* a fetch of loadChallenge or loadPackageChallenge delivers its challenge
ChallengeLoaded ==
    \E id \in loading :
        /\ currentChallenge' = [id |-> id]
        /\ loading' = loading \ {id}
        /\ UNCHANGED <<Idle, localStorage, progress, selectedBasicChallenges,
                       selectedPackages, learningPlan, currentChallengeIndex, submitting,
                       timers, progressPercentage, screen, resumeCard>>

\* a fetch of loadChallenge or loadPackageChallenge fails: the catch, a toast
ChallengeLoadFails ==
    \E id \in loading :
        /\ loading' = loading \ {id}
        /\ UNCHANGED <<Idle, localStorage, progress, selectedBasicChallenges,
                       selectedPackages, learningPlan, currentChallengeIndex,
                       currentChallenge, submitting, timers, progressPercentage, screen,
                       resumeCard>>

\* nextChallenge, the Next button of the session
NextChallenge ==
    /\ screen = "session"
    /\ MayLoad
    /\ currentChallengeIndex' = Advanced(currentChallengeIndex, learningPlan)
    /\ loading' = IF currentChallengeIndex' # currentChallengeIndex
                  THEN loadCurrentChallenge(selectedBasicChallenges, selectedPackages,
                                            currentChallengeIndex')
                  ELSE loading
    /\ UNCHANGED <<Idle, localStorage, progress, selectedBasicChallenges, selectedPackages,
                   learningPlan, currentChallenge, submitting, timers, progressPercentage,
                   screen, resumeCard>>

\* previousChallenge, the Previous button of the session
PreviousChallenge ==
    /\ screen = "session"
    /\ MayLoad
    /\ currentChallengeIndex' =
           IF currentChallengeIndex > 0 THEN currentChallengeIndex - 1
           ELSE currentChallengeIndex
    /\ loading' = IF currentChallengeIndex > 0
                  THEN loadCurrentChallenge(selectedBasicChallenges, selectedPackages,
                                            currentChallengeIndex')
                  ELSE loading
    /\ UNCHANGED <<Idle, localStorage, progress, selectedBasicChallenges, selectedPackages,
                   learningPlan, currentChallenge, submitting, timers, progressPercentage,
                   screen, resumeCard>>

\* navigateToChallenge(index), a button of the pager: the pager has one button
\* for each challenge of the plan and disables those beyond the current one
NavigateToChallenge ==
    \E index \in 0..(learningPlan.totalChallenges - 1) :
        /\ screen = "session"
        /\ index <= currentChallengeIndex
        /\ MayLoad
        /\ currentChallengeIndex' = index
        /\ loading' = loadCurrentChallenge(selectedBasicChallenges, selectedPackages, index)
        /\ UNCHANGED <<Idle, localStorage, progress, selectedBasicChallenges,
                       selectedPackages, learningPlan, currentChallenge, submitting,
                       timers, progressPercentage, screen, resumeCard>>

\* submitSolution up to its await: the button is disabled until the response
SubmitSolution ==
    /\ screen = "session"
    /\ currentChallenge # NoChallenge
    /\ ~submitting
    /\ submitting' = TRUE
    /\ UNCHANGED <<Idle, localStorage, progress, selectedBasicChallenges, selectedPackages,
                   learningPlan, currentChallengeIndex, currentChallenge, loading, timers,
                   progressPercentage, screen, resumeCard>>

\* submitSolution after its await, the submission passed: markChallengeComplete
\* records the challenge shown, saves, updates the progress and sets its timer
SubmissionAccepted ==
    /\ submitting
    /\ Len(timers) < MaxTimers
    /\ submitting' = FALSE
    /\ progress' = [progress EXCEPT
                       !.completedChallenges = Completed(@, currentChallenge.id)]
    /\ localStorage' = [localStorage EXCEPT !.progress = progress']
    /\ progressPercentage' =
           IF progress' # progress THEN updateProgress(progress') ELSE progressPercentage
    /\ timers' = Append(timers, [at |-> currentChallengeIndex])
    /\ UNCHANGED <<Idle, selectedBasicChallenges, selectedPackages, learningPlan,
                   currentChallengeIndex, currentChallenge, loading, screen, resumeCard>>

\* submitSolution after its await, the submission did not pass or the fetch failed
SubmissionRejected ==
    /\ submitting
    /\ submitting' = FALSE
    /\ UNCHANGED <<Idle, localStorage, progress, selectedBasicChallenges, selectedPackages,
                   learningPlan, currentChallengeIndex, currentChallenge, loading, timers,
                   progressPercentage, screen, resumeCard>>

\* the oldest timer of markChallengeComplete fires after its 3 seconds: nextChallenge
NextChallengeTimer ==
    /\ timers # <<>>
    /\ MayLoad
    /\ timers' = Tail(timers)
    /\ currentChallengeIndex' = Advanced(currentChallengeIndex, learningPlan)
    /\ loading' = IF currentChallengeIndex' # currentChallengeIndex
                  THEN loadCurrentChallenge(selectedBasicChallenges, selectedPackages,
                                            currentChallengeIndex')
                  ELSE loading
    /\ UNCHANGED <<Idle, localStorage, progress, selectedBasicChallenges, selectedPackages,
                   learningPlan, currentChallenge, submitting, progressPercentage, screen,
                   resumeCard>>

\* saveAndExit: back to the overview
SaveAndExit ==
    /\ screen = "session"
    /\ screen' = "overview"
    /\ UNCHANGED <<Idle, localStorage, progress, selectedBasicChallenges, selectedPackages,
                   learningPlan, currentChallengeIndex, currentChallenge, loading,
                   submitting, timers, progressPercentage, resumeCard>>

\* the page with the progress `saved` in localStorage is loaded: the constructor,
\* init with updateProgress and checkExistingProgress
Constructed(saved) ==
    /\ progress' = saved
    /\ selectedBasicChallenges' = <<>>
    /\ selectedPackages' = <<>>
    /\ learningPlan' = NoPlan
    /\ currentChallengeIndex' = 0
    /\ currentChallenge' = NoChallenge
    /\ loading' = {}
    /\ submitting' = FALSE
    /\ timers' = <<>>
    /\ progressPercentage' = IF saved.learningPlan.set THEN progressPercent(saved) ELSE 0
    /\ screen' = "overview"
    /\ resumeCard' = saved.learningPlan.set

\* the user loads the page again
ReloadPage ==
    /\ Constructed(localStorage.progress)
    /\ UNCHANGED <<Idle, localStorage>>

\* resetProgress, confirmed: the saved progress is cleared and the page reloaded
ResetProgress ==
    /\ localStorage' = [localStorage EXCEPT !.progress = DefaultProgress]
    /\ Constructed(DefaultProgress)
    /\ UNCHANGED Idle

NextSession ==
    \/ UpdateBasicChallengeSelection
    \/ UpdatePackageSelection
    \/ StartLearningSession
    \/ ResumeProgress
    \/ ChallengeLoaded
    \/ ChallengeLoadFails
    \/ NextChallenge
    \/ PreviousChallenge
    \/ NavigateToChallenge
    \/ SubmitSolution
    \/ SubmissionAccepted
    \/ SubmissionRejected
    \/ NextChallengeTimer
    \/ SaveAndExit
    \/ ReloadPage
    \/ ResetProgress

SpecSession == InitSession /\ [][NextSession]_vars

(***************************************************************************)
(* C27 .. C30: the position in the learning plan and the progress          *)
(***************************************************************************)
\* the positions of the challenges of a plan
PlanPositions(plan) == 0..(plan.totalChallenges - 1)

\* currentChallengeIndex addresses a challenge of the learning plan
IndexInPlan == currentChallengeIndex \in PlanPositions(learningPlan)

\* a step of one of the handlers that move within a running session
Moves ==
    \/ NextChallenge
    \/ PreviousChallenge
    \/ NavigateToChallenge
    \/ SubmissionAccepted
    \/ NextChallengeTimer

\* C27: once a learning session is running, currentChallengeIndex stays within
\* 0 .. totalChallenges-1: resumeProgress leaves it there, and nextChallenge,
\* previousChallenge, navigateToChallenge and markChallengeComplete keep it there
C27_IndexStaysInPlan ==
    [][((Moves /\ IndexInPlan) \/ ResumeProgress) => IndexInPlan']_vars

Least(a, b) == IF a <= b THEN a ELSE b

\* C28: the nextChallenge that follows a successful submission of the challenge at
\* index i leaves the session at index i+1, or at the last challenge, whatever the
\* user did during the 3-second delay
C28_AdvancesByOne ==
    [][NextChallengeTimer =>
          currentChallengeIndex' =
              Least(Head(timers).at + 1, learningPlan.totalChallenges - 1)]_vars

\* the positions of the plan whose challenge is not completed
Uncompleted(p) ==
    {i \in PlanPositions(p.learningPlan) :
        ~Includes1(p.completedChallenges,
                   ChallengeAt(p.learningPlan.basicChallenges, p.learningPlan.packages, i))}

\* C29: the challenge resumeProgress loads is the first challenge of the saved
\* learning plan that is not in completedChallenges
C29_ResumesAtFirstUncompleted ==
    [][(ResumeProgress /\ Uncompleted(progress) # {}) =>
          currentChallengeIndex' = First(Uncompleted(progress))]_vars

NoDuplicate(list) == \A i, j \in 1..Len(list) : list[i] = list[j] => i = j

\* C30: with a learning plan set up, completedChallenges holds no duplicate id and
\* no more ids than the plan has challenges, and the percentage shown is within
\* 0..100
C30_ProgressWithinPlan ==
    progress.learningPlan.set =>
        /\ Len(progress.completedChallenges) <= progress.learningPlan.totalChallenges
        /\ NoDuplicate(progress.completedChallenges)
        /\ progressPercentage \in 0..100
=============================================================================
